---- MODULE Spec2Model ----
(***************************************************************************)
(* The spreadsheet semantic-search backend: the query pipeline of          *)
(* SearchService (semantic mode, SQL mode, suggestions), the Tabular       *)
(* Extractor (ExcelProcessor) and the upload endpoint with the ingest path *)
(* of EmbeddingService, over a relational metadata store and a vector      *)
(* store.  Text is modelled as sequences of one-character strings so that  *)
(* upper(), substring tests and the regular expressions of the code are    *)
(* computed, not assumed.                                                  *)
(***************************************************************************)
EXTENDS Integers, Sequences, FiniteSets, TLC

VARIABLES
    vector_db,          \* the vector collection: document id -> stored embedding
    spreadsheet_data,   \* committed Cell Records (table spreadsheet_data)
    excel_files,        \* committed File Records (table excel_files)
    search_history,     \* committed Search History Records, in insertion order
    response,           \* what the caller of the last request received
    executed,           \* statements handed to db.execute(text(...)) by the last SQL request
    vector_calls,       \* n_results of each vector_db.query call of the last semantic request
    retrieved,          \* the neighbours the vector store returned to the last semantic request
    enriched,           \* neighbours passed to the metadata enrichment by the last semantic request
    request,            \* the inputs of the last request
    generated,          \* what _generate_sql_with_gemini returned to the last SQL request (or None)
    db_failed,          \* whether the database raised while the last SQL request ran its statement
    provider_failed,    \* whether the text provider raised in the last SQL request
    sql_results,        \* the rows _execute_sql_safely returned to the last SQL request
    history_failed,     \* whether the history write of the last request raised (and was swallowed)
    upload,             \* the file handed to the Tabular Extractor
    processed_data,     \* what ExcelProcessor.process_file returned or raised for it
    stored,             \* what process_and_store_data returned or raised in the last upload
    embedding_calls,    \* the _create_embedding calls of the last upload, in order
    indexed             \* the entries the last upload added to the vector collection, in order

vars ==
    <<vector_db, spreadsheet_data, excel_files, search_history, response, executed,
      vector_calls, retrieved, enriched, request, generated, db_failed, sql_results,
      history_failed, provider_failed, upload, processed_data, stored, embedding_calls,
      indexed>>

-----------------------------------------------------------------------------
(* Bounds of the model *)

MaxDocs ==
    2

MaxLimit ==
    2

MaxHistory ==
    1

MaxRows ==
    1

MaxFiles ==
    2

-----------------------------------------------------------------------------
(* Python str operations on character sequences *)

NL ==
    "\n"

\* the backquote character
BQ ==
    "backquote"

LowerLetters ==
    <<"a", "b", "c", "d", "e", "f", "g", "h", "i", "j", "k", "l", "m", "n", "o", "p", "q", "r",
      "s", "t", "u", "v", "w", "x", "y", "z">>

UpperLetters ==
    <<"A", "B", "C", "D", "E", "F", "G", "H", "I", "J", "K", "L", "M", "N", "O", "P", "Q", "R",
      "S", "T", "U", "V", "W", "X", "Y", "Z">>

Whitespace ==
    {" ", NL, "\t"}

UpperChar(c) ==
    IF \E i \in 1..26 : LowerLetters[i] = c
    THEN UpperLetters[CHOOSE i \in 1..26 : LowerLetters[i] = c]
    ELSE c

LowerChar(c) ==
    IF \E i \in 1..26 : UpperLetters[i] = c
    THEN LowerLetters[CHOOSE i \in 1..26 : UpperLetters[i] = c]
    ELSE c

\* str.upper()
str_upper(s) ==
    [i \in 1..Len(s) |-> UpperChar(s[i])]

\* str.lower()
str_lower(s) ==
    [i \in 1..Len(s) |-> LowerChar(s[i])]

\* positions (1-based) at which needle occurs in hay
Occurrences(hay, needle) ==
    {i \in 1..(Len(hay) - Len(needle) + 1) : SubSeq(hay, i, i + Len(needle) - 1) = needle}

\* needle in hay
str_contains(hay, needle) ==
    Occurrences(hay, needle) # {}

SetMin(S) ==
    CHOOSE x \in S : \A y \in S : x <= y

\* str.strip()
str_strip(s) ==
    LET keep == {i \in 1..Len(s) : s[i] \notin Whitespace}
    IN  IF keep = {} THEN <<>>
        ELSE SubSeq(s, SetMin(keep), CHOOSE x \in keep : \A y \in keep : y <= x)

\* str.replace(old, ""): non-overlapping occurrences removed left to right
RECURSIVE str_remove(_, _)
str_remove(s, old) ==
    IF Occurrences(s, old) = {} THEN s
    ELSE LET i == SetMin(Occurrences(s, old))
         IN  SubSeq(s, 1, i - 1) \o str_remove(SubSeq(s, i + Len(old), Len(s)), old)

\* str.split(): maximal runs of non-whitespace characters
RECURSIVE str_split(_)
str_split(s) ==
    LET t == str_strip(s)
        ws == {i \in 1..Len(t) : t[i] \in Whitespace}
    IN  IF t = <<>> THEN <<>>
        ELSE IF ws = {} THEN <<t>>
        ELSE <<SubSeq(t, 1, SetMin(ws) - 1)>> \o str_split(SubSeq(t, SetMin(ws), Len(t)))

\* seq[:n] with Python's meaning of a negative n
PySliceTo(seq, n) ==
    IF n >= 0 THEN SubSeq(seq, 1, IF n < Len(seq) THEN n ELSE Len(seq))
    ELSE SubSeq(seq, 1, IF Len(seq) + n > 0 THEN Len(seq) + n ELSE 0)

-----------------------------------------------------------------------------
(* Values *)

\* Optional[...]: None is the empty tuple, a present value x is <<x>>
None ==
    <<>>

Some(x) ==
    <<x>>

\* similarity scores and thresholds are fixed-point, in tenths: One is 1.0
One ==
    10

\* the fallback embedding [0.0] * 768 of a failed embedding call
ZeroVector ==
    0

\* embeddings are abstracted to the points of a line
Positions ==
    {0, 1, 2}

\* the distance the vector store reports between two embeddings, in tenths
Distance(a, b) ==
    4 * (IF a >= b THEN a - b ELSE b - a)

Limits ==
    1..MaxLimit

Thresholds ==
    {6, 10}

-----------------------------------------------------------------------------
(* Texts *)

\* 'SQL_QUERY:'
LabelSqlQuery ==
    <<"S", "Q", "L", "_", "Q", "U", "E", "R", "Y", ":">>
\* 'EXPLANATION:'
LabelExplanation ==
    <<"E", "X", "P", "L", "A", "N", "A", "T", "I", "O", "N", ":">>
\* '[fence]sql'
FenceSql ==
    <<BQ, BQ, BQ, "s", "q", "l">>
\* '[fence]'
Fence ==
    <<BQ, BQ, BQ>>
\* 'No explanation provided'
NoExplanation ==
    <<"N", "o", " ", "e", "x", "p", "l", "a", "n", "a", "t", "i", "o", "n", " ", "p", "r", "o",
      "v", "i", "d", "e", "d">>
\* 'SELECT * FROM spreadsheet_data LIMIT 10'
DefaultSql ==
    <<"S", "E", "L", "E", "C", "T", " ", "*", " ", "F", "R", "O", "M", " ", "s", "p", "r", "e",
      "a", "d", "s", "h", "e", "e", "t", "_", "d", "a", "t", "a", " ", "L", "I", "M", "I", "T",
      " ", "1", "0">>
\* 'SELECT'
KwSelect ==
    <<"S", "E", "L", "E", "C", "T">>
\* 'REPLACE'
KwReplace ==
    <<"R", "E", "P", "L", "A", "C", "E">>
\* 'SQL_QUERY: SELECT * FROM spreadsheet_data LIMIT 5\nEXPLANATION: all cells'
RespSelect ==
    <<"S", "Q", "L", "_", "Q", "U", "E", "R", "Y", ":", " ", "S", "E", "L", "E", "C", "T", " ",
      "*", " ", "F", "R", "O", "M", " ", "s", "p", "r", "e", "a", "d", "s", "h", "e", "e", "t",
      "_", "d", "a", "t", "a", " ", "L", "I", "M", "I", "T", " ", "5", NL, "E", "X", "P", "L",
      "A", "N", "A", "T", "I", "O", "N", ":", " ", "a", "l", "l", " ", "c", "e", "l", "l",
      "s">>
\* 'sql_query:\n[fence]sql\ndrop table excel_files\n[fence]\nExplanation: cleanup'
RespFencedDrop ==
    <<"s", "q", "l", "_", "q", "u", "e", "r", "y", ":", NL, BQ, BQ, BQ, "s", "q", "l", NL,
      "d", "r", "o", "p", " ", "t", "a", "b", "l", "e", " ", "e", "x", "c", "e", "l", "_", "f",
      "i", "l", "e", "s", NL, BQ, BQ, BQ, NL, "E", "x", "p", "l", "a", "n", "a", "t", "i",
      "o", "n", ":", " ", "c", "l", "e", "a", "n", "u", "p">>
\* "SQL_QUERY: REPLACE INTO spreadsheet_data (id, file_id, row_index, column_name, numerical_value, data_type) VALUES (1, 1, 0, 'Quota', 0, 'number')\nEXPLANATION: fix"
RespReplace ==
    <<"S", "Q", "L", "_", "Q", "U", "E", "R", "Y", ":", " ", "R", "E", "P", "L", "A", "C", "E",
      " ", "I", "N", "T", "O", " ", "s", "p", "r", "e", "a", "d", "s", "h", "e", "e", "t", "_",
      "d", "a", "t", "a", " ", "(", "i", "d", ",", " ", "f", "i", "l", "e", "_", "i", "d", ",",
      " ", "r", "o", "w", "_", "i", "n", "d", "e", "x", ",", " ", "c", "o", "l", "u", "m", "n",
      "_", "n", "a", "m", "e", ",", " ", "n", "u", "m", "e", "r", "i", "c", "a", "l", "_", "v",
      "a", "l", "u", "e", ",", " ", "d", "a", "t", "a", "_", "t", "y", "p", "e", ")", " ", "V",
      "A", "L", "U", "E", "S", " ", "(", "1", ",", " ", "1", ",", " ", "0", ",", " ", "'", "Q",
      "u", "o", "t", "a", "'", ",", " ", "0", ",", " ", "'", "n", "u", "m", "b", "e", "r", "'",
      ")", NL, "E", "X", "P", "L", "A", "N", "A", "T", "I", "O", "N", ":", " ", "f", "i",
      "x">>
\* 'I cannot help with that.'
RespNoLabel ==
    <<"I", " ", "c", "a", "n", "n", "o", "t", " ", "h", "e", "l", "p", " ", "w", "i", "t", "h",
      " ", "t", "h", "a", "t", ".">>
\* 'SQL_QUERY: select created_at from spreadsheet_data limit 1'
RespCreatedAt ==
    <<"S", "Q", "L", "_", "Q", "U", "E", "R", "Y", ":", " ", "s", "e", "l", "e", "c", "t", " ",
      "c", "r", "e", "a", "t", "e", "d", "_", "a", "t", " ", "f", "r", "o", "m", " ", "s", "p",
      "r", "e", "a", "d", "s", "h", "e", "e", "t", "_", "d", "a", "t", "a", " ", "l", "i", "m",
      "i", "t", " ", "1">>
\* 'SQL_QUERY: SELEC * FORM cells EXPLANATION: typo'
RespGarbage ==
    <<"S", "Q", "L", "_", "Q", "U", "E", "R", "Y", ":", " ", "S", "E", "L", "E", "C", " ", "*",
      " ", "F", "O", "R", "M", " ", "c", "e", "l", "l", "s", " ", "E", "X", "P", "L", "A", "N",
      "A", "T", "I", "O", "N", ":", " ", "t", "y", "p", "o">>
\* 'SQL_QUERY: SELECT 1; Delete From search_history\nEXPLANATION: two statements'
RespMixedDelete ==
    <<"S", "Q", "L", "_", "Q", "U", "E", "R", "Y", ":", " ", "S", "E", "L", "E", "C", "T", " ",
      "1", ";", " ", "D", "e", "l", "e", "t", "e", " ", "F", "r", "o", "m", " ", "s", "e", "a",
      "r", "c", "h", "_", "h", "i", "s", "t", "o", "r", "y", NL, "E", "X", "P", "L", "A", "N",
      "A", "T", "I", "O", "N", ":", " ", "t", "w", "o", " ", "s", "t", "a", "t", "e", "m", "e",
      "n", "t", "s">>
\* 'SQL_QUERY: SELECT *, numerical_value AS formatted_value FROM spreadsheet_data
\*  WHERE numerical_value IS NOT NULL LIMIT 10\nEXPLANATION: values'
RespAliased ==
    <<"S", "Q", "L", "_", "Q", "U", "E", "R", "Y", ":", " ", "S", "E", "L", "E", "C", "T", " ",
      "*", ",", " ", "n", "u", "m", "e", "r", "i", "c", "a", "l", "_", "v", "a", "l", "u", "e",
      " ", "A", "S", " ", "f", "o", "r", "m", "a", "t", "t", "e", "d", "_", "v", "a", "l", "u",
      "e", " ", "F", "R", "O", "M", " ", "s", "p", "r", "e", "a", "d", "s", "h", "e", "e", "t",
      "_", "d", "a", "t", "a", " ", "W", "H", "E", "R", "E", " ", "n", "u", "m", "e", "r", "i",
      "c", "a", "l", "_", "v", "a", "l", "u", "e", " ", "I", "S", " ", "N", "O", "T", " ", "N",
      "U", "L", "L", " ", "L", "I", "M", "I", "T", " ", "1", "0", NL, "E", "X", "P", "L", "A",
      "N", "A", "T", "I", "O", "N", ":", " ", "v", "a", "l", "u", "e", "s">>
\* 'AS formatted_value'
KwAliased ==
    <<"A", "S", " ", "f", "o", "r", "m", "a", "t", "t", "e", "d", "_", "v", "a", "l", "u",
      "e">>
\* 'reps under quota'
QueryUnderQuota ==
    <<"r", "e", "p", "s", " ", "u", "n", "d", "e", "r", " ", "q", "u", "o", "t", "a">>
\* 'best sales'
QueryBestSales ==
    <<"b", "e", "s", "t", " ", "s", "a", "l", "e", "s">>
\* 'who exceeded their quota'
QueryQuota ==
    <<"w", "h", "o", " ", "e", "x", "c", "e", "e", "d", "e", "d", " ", "t", "h", "e", "i", "r",
      " ", "q", "u", "o", "t", "a">>
\* 'Rep Name'
ColRepName ==
    <<"R", "e", "p", " ", "N", "a", "m", "e">>
\* 'Quota'
ColQuota ==
    <<"Q", "u", "o", "t", "a">>
\* 'Performance %'
ColPerformance ==
    <<"P", "e", "r", "f", "o", "r", "m", "a", "n", "c", "e", " ", "%">>
\* 'quota'
KwQuotaLower ==
    <<"q", "u", "o", "t", "a">>
\* 'Error generating query: provider unavailable'
ProviderErrorExplanation ==
    <<"E", "r", "r", "o", "r", " ", "g", "e", "n", "e", "r", "a", "t", "i", "n", "g", " ", "q",
      "u", "e", "r", "y", ":", " ", "p", "r", "o", "v", "i", "d", "e", "r", " ", "u", "n", "a",
      "v", "a", "i", "l", "a", "b", "l", "e">>


unsafe_keywords ==
    <<
      \* 'DELETE'
      <<"D", "E", "L", "E", "T", "E">>,
      \* 'UPDATE'
      <<"U", "P", "D", "A", "T", "E">>,
      \* 'INSERT'
      <<"I", "N", "S", "E", "R", "T">>,
      \* 'DROP'
      <<"D", "R", "O", "P">>,
      \* 'ALTER'
      <<"A", "L", "T", "E", "R">>,
      \* 'CREATE'
      <<"C", "R", "E", "A", "T", "E">>,
      \* 'TRUNCATE'
      <<"T", "R", "U", "N", "C", "A", "T", "E">>
    >>

base_suggestions ==
    <<
      \* 'Show me the top performers'
      <<"S", "h", "o", "w", " ", "m", "e", " ", "t", "h", "e", " ", "t", "o", "p", " ", "p",
        "e", "r", "f", "o", "r", "m", "e", "r", "s">>,
      \* 'Which region has the best sales?'
      <<"W", "h", "i", "c", "h", " ", "r", "e", "g", "i", "o", "n", " ", "h", "a", "s", " ",
        "t", "h", "e", " ", "b", "e", "s", "t", " ", "s", "a", "l", "e", "s", "?">>,
      \* 'Who is underperforming?'
      <<"W", "h", "o", " ", "i", "s", " ", "u", "n", "d", "e", "r", "p", "e", "r", "f", "o",
        "r", "m", "i", "n", "g", "?">>,
      \* 'Average performance by region'
      <<"A", "v", "e", "r", "a", "g", "e", " ", "p", "e", "r", "f", "o", "r", "m", "a", "n",
        "c", "e", " ", "b", "y", " ", "r", "e", "g", "i", "o", "n">>,
      \* 'Total sales by representative'
      <<"T", "o", "t", "a", "l", " ", "s", "a", "l", "e", "s", " ", "b", "y", " ", "r", "e",
        "p", "r", "e", "s", "e", "n", "t", "a", "t", "i", "v", "e">>
    >>

suggestion_pool ==
    <<
      \* 'who did the best sales from the sales team?'
      <<"w", "h", "o", " ", "d", "i", "d", " ", "t", "h", "e", " ", "b", "e", "s", "t", " ",
        "s", "a", "l", "e", "s", " ", "f", "r", "o", "m", " ", "t", "h", "e", " ", "s", "a",
        "l", "e", "s", " ", "t", "e", "a", "m", "?">>,
      \* 'which representative has the highest performance?'
      <<"w", "h", "i", "c", "h", " ", "r", "e", "p", "r", "e", "s", "e", "n", "t", "a", "t",
        "i", "v", "e", " ", "h", "a", "s", " ", "t", "h", "e", " ", "h", "i", "g", "h", "e",
        "s", "t", " ", "p", "e", "r", "f", "o", "r", "m", "a", "n", "c", "e", "?">>,
      \* 'show me all representatives in the North region'
      <<"s", "h", "o", "w", " ", "m", "e", " ", "a", "l", "l", " ", "r", "e", "p", "r", "e",
        "s", "e", "n", "t", "a", "t", "i", "v", "e", "s", " ", "i", "n", " ", "t", "h", "e",
        " ", "N", "o", "r", "t", "h", " ", "r", "e", "g", "i", "o", "n">>,
      \* 'what is the average quota by region?'
      <<"w", "h", "a", "t", " ", "i", "s", " ", "t", "h", "e", " ", "a", "v", "e", "r", "a",
        "g", "e", " ", "q", "u", "o", "t", "a", " ", "b", "y", " ", "r", "e", "g", "i", "o",
        "n", "?">>,
      \* 'which region has the lowest performance?'
      <<"w", "h", "i", "c", "h", " ", "r", "e", "g", "i", "o", "n", " ", "h", "a", "s", " ",
        "t", "h", "e", " ", "l", "o", "w", "e", "s", "t", " ", "p", "e", "r", "f", "o", "r",
        "m", "a", "n", "c", "e", "?">>,
      \* 'who exceeded their quota?'
      <<"w", "h", "o", " ", "e", "x", "c", "e", "e", "d", "e", "d", " ", "t", "h", "e", "i",
        "r", " ", "q", "u", "o", "t", "a", "?">>,
      \* 'total sales for each region'
      <<"t", "o", "t", "a", "l", " ", "s", "a", "l", "e", "s", " ", "f", "o", "r", " ", "e",
        "a", "c", "h", " ", "r", "e", "g", "i", "o", "n">>,
      \* 'performance ranking of all representatives'
      <<"p", "e", "r", "f", "o", "r", "m", "a", "n", "c", "e", " ", "r", "a", "n", "k", "i",
        "n", "g", " ", "o", "f", " ", "a", "l", "l", " ", "r", "e", "p", "r", "e", "s", "e",
        "n", "t", "a", "t", "i", "v", "e", "s">>
    >>

-----------------------------------------------------------------------------
(* The stores as the ingest path leaves them *)

\* metadata bag ingest files with a vector entry (type "data")
DocMetadata(doc) ==
    [file_id |-> 1,
     row_index |-> (doc - 1) % 2,
     column_name |-> ColRepName,
     numerical_context |-> None]

SampleFile ==
    [id |-> 1, row_count |-> 2, file_hash |-> "h1"]

Cell(id, row, col, txt, num, type, emb) ==
    [id |-> id, file_id |-> 1, row_index |-> row, column_name |-> col, text_value |-> txt,
     numerical_value |-> num, data_type |-> type, embedding_id |-> emb]

SampleCells ==
    {Cell(1, 0, ColRepName, Some(<<"A", "n", "n">>), None, "text", Some(1)),
     Cell(2, 0, ColQuota, None, Some(100), "number", None),
     Cell(3, 0, ColPerformance, None, Some(1), "percentage", None)}

\* the rows of a table in primary-key order
RECURSIVE RowsById(_)
RowsById(cells) ==
    IF cells = {} THEN <<>>
    ELSE LET c == CHOOSE x \in cells : \A y \in cells : x.id <= y.id
         IN  <<c>> \o RowsById(cells \ {c})

-----------------------------------------------------------------------------
(* SQL mode: SearchService._generate_sql_with_gemini *)

\* first position of label in text under re.IGNORECASE, 0 when there is none
FindIgnoreCase(text, label) ==
    LET occ == Occurrences(str_upper(text), str_upper(label))
    IN  IF occ = {} THEN 0 ELSE SetMin(occ)

\* group(1) of re.search(r'SQL_QUERY:\s*(.*?)(?=EXPLANATION:|$)', ...), stripped;
\* "" when the label is missing
sql_match(response_text) ==
    LET at == FindIgnoreCase(response_text, LabelSqlQuery)
        rest == SubSeq(response_text, at + Len(LabelSqlQuery), Len(response_text))
        stop == FindIgnoreCase(rest, LabelExplanation)
    IN  IF at = 0 THEN <<>>
        ELSE str_strip(IF stop = 0 THEN rest ELSE SubSeq(rest, 1, stop - 1))

\* group(1) of re.search(r'EXPLANATION:\s*(.*?)$', ...), stripped, or the default text
explanation_match(response_text) ==
    LET at == FindIgnoreCase(response_text, LabelExplanation)
    IN  IF at = 0 THEN NoExplanation
        ELSE str_strip(SubSeq(response_text, at + Len(LabelExplanation), Len(response_text)))

\* sql_query.replace('[fence]sql', '').replace('[fence]', '').strip()
clean_sql(sql_query) ==
    str_strip(str_remove(str_remove(sql_query, FenceSql), Fence))

\* what the text provider may do: raise, or return one of these texts
ProviderRaises ==
    <<"raise">>

ProviderOutcomes ==
    {ProviderRaises, RespSelect, RespFencedDrop, RespReplace, RespNoLabel, RespCreatedAt,
     RespGarbage, RespMixedDelete, RespAliased}

\* variant: a failed provider call is treated like an answer without labels
generate_sql_with_gemini_NoDefault(provider) ==
    IF provider = ProviderRaises
    THEN [sql_query |-> <<>>, explanation |-> NoExplanation]
    ELSE [sql_query |-> clean_sql(sql_match(provider)),
          explanation |-> explanation_match(provider)]

\* (sql_query, explanation)
generate_sql_with_gemini(provider) ==
    IF provider = ProviderRaises
    THEN [sql_query |-> DefaultSql, explanation |-> ProviderErrorExplanation]
    ELSE [sql_query |-> clean_sql(sql_match(provider)),
          explanation |-> explanation_match(provider)]

\* generate_sql_with_gemini, evaluated once per provider outcome
GeneratedSql ==
    [provider \in ProviderOutcomes |-> generate_sql_with_gemini(provider)]

\* every statement SQL mode can generate
Statements ==
    {GeneratedSql[provider].sql_query : provider \in ProviderOutcomes}

-----------------------------------------------------------------------------
(* SQL mode: the database engine behind db.execute(text(sql_query)) *)

\* the statement's leading keyword, uppercased ("" for an empty statement)
LeadingKeyword(stmt) ==
    IF str_split(stmt) = <<>> THEN <<>> ELSE str_upper(str_split(stmt)[1])

LeadingKeywordOf ==
    [stmt \in Statements |-> LeadingKeyword(stmt)]

\* whether the statement selects numerical_value AS formatted_value (from the rows
\* whose numerical_value IS NOT NULL)
Aliased(stmt) ==
    str_contains(stmt, KwAliased)

AliasedOf ==
    [stmt \in Statements |-> Aliased(stmt)]

\* what the engine may do with one statement: fail (-1), or answer with k rows
DbOutcomes(cells) ==
    {-1} \cup (0..Cardinality(cells))

\* REPLACE INTO spreadsheet_data (id, ...) VALUES (1, ...): row 1 is replaced
ReplaceRow(cells) ==
    {c \in cells : c.id # 1} \cup {Cell(1, 0, ColQuota, None, Some(0), "number", None)}

\* the result of session.execute followed by result.fetchall():
\*   raised: either call raised (caught by the caller); rows: the rows fetched;
\*   cells: the table as the session's open transaction now sees it
db_execute(stmt, cells, outcome) ==
    LET kw == LeadingKeywordOf[stmt]
        all == RowsById(IF AliasedOf[stmt] THEN {c \in cells : c.numerical_value # None}
                        ELSE cells)
    IN  IF kw = KwSelect /\ outcome >= 0
        THEN [raised |-> FALSE, cells |-> cells,
              rows |-> SubSeq(all, 1, IF outcome < Len(all) THEN outcome ELSE Len(all))]
        ELSE IF kw = KwReplace /\ outcome >= 0
        THEN [raised |-> TRUE, rows |-> <<>>, cells |-> ReplaceRow(cells)]
        ELSE [raised |-> TRUE, rows |-> <<>>, cells |-> cells]

-----------------------------------------------------------------------------
(* SQL mode: SearchService._execute_sql_safely *)

\* variant: the keywords are looked for in the statement as written
UnsafeKeyword_CaseSensitive(sql_query) ==
    LET hits == {k \in 1..Len(unsafe_keywords) : str_contains(sql_query, unsafe_keywords[k])}
    IN  IF hits = {} THEN 0 ELSE SetMin(hits)

\* variant: a keyword counts only as a whole word of the statement
UnsafeKeyword_WholeWord(sql_query) ==
    LET query_upper == str_upper(sql_query)
        WordChar(c) == c \in {"_", "0", "1", "2", "3", "4", "5", "6", "7", "8", "9"}
                         \/ \E i \in 1..26 : UpperLetters[i] = c
        WholeAt(i, n) == /\ (i > 1 => ~WordChar(query_upper[i - 1]))
                         /\ (i + n <= Len(query_upper) => ~WordChar(query_upper[i + n]))
        hits == {k \in 1..Len(unsafe_keywords) :
                    \E i \in Occurrences(query_upper, unsafe_keywords[k]) :
                        WholeAt(i, Len(unsafe_keywords[k]))}
    IN  IF hits = {} THEN 0 ELSE SetMin(hits)

\* the first keyword of unsafe_keywords, in list order, found in the uppercased
\* statement; 0 when there is none
UnsafeKeyword(sql_query) ==
    LET hits == {k \in 1..Len(unsafe_keywords) :
                    str_contains(str_upper(sql_query), unsafe_keywords[k])}
    IN  IF hits = {} THEN 0 ELSE SetMin(hits)

UnsafeKeywordOf ==
    [stmt \in Statements |-> UnsafeKeyword(stmt)]

\* a result row as a Python dict; formatted_value is None while the key is absent
RowDict(row) ==
    [id |-> row.id, file_id |-> row.file_id, row_index |-> row.row_index,
     column_name |-> row.column_name, text_value |-> row.text_value,
     numerical_value |-> row.numerical_value, data_type |-> row.data_type,
     embedding_id |-> row.embedding_id, formatted_value |-> None]

\* dict(row._mapping) of a row the statement selected: the table's columns, and
\* the column the statement's alias adds
RowMapping(stmt, row) ==
    IF AliasedOf[stmt]
    THEN [RowDict(row) EXCEPT !.formatted_value = Some(<<"column", row.numerical_value[1]>>)]
    ELSE RowDict(row)

\* the ValueError raised for the keyword at index k of unsafe_keywords
UnsafeError(k) ==
    Some(<<"ValueError", "Unsafe SQL operation detected", unsafe_keywords[k]>>)

\* variant: a failure of the database is raised to the caller
execute_sql_safely_Propagates(db, sql_query, cells, outcome) ==
    IF ~db
    THEN [error |-> None, results |-> <<>>, executed |-> <<>>, db_failed |-> FALSE,
          cells |-> cells]
    ELSE IF UnsafeKeywordOf[sql_query] # 0
    THEN [error |-> UnsafeError(UnsafeKeywordOf[sql_query]), results |-> <<>>,
          executed |-> <<>>, db_failed |-> FALSE, cells |-> cells]
    ELSE LET r == db_execute(sql_query, cells, outcome)
         IN  [error |-> IF r.raised THEN Some(<<"DatabaseError", "execution failed", sql_query>>)
                        ELSE None,
              results |-> IF r.raised THEN <<>>
                          ELSE [i \in 1..Len(r.rows) |-> RowMapping(sql_query, r.rows[i])],
              executed |-> <<sql_query>>,
              db_failed |-> r.raised,
              cells |-> r.cells]

\* variant: a statement that fails the gate is answered with no rows
execute_sql_safely_Quiet(db, sql_query, cells, outcome) ==
    IF ~db \/ UnsafeKeywordOf[sql_query] # 0
    THEN [error |-> None, results |-> <<>>, executed |-> <<>>, db_failed |-> FALSE,
          cells |-> cells]
    ELSE LET r == db_execute(sql_query, cells, outcome)
         IN  [error |-> None,
              results |-> IF r.raised THEN <<>>
                          ELSE [i \in 1..Len(r.rows) |-> RowMapping(sql_query, r.rows[i])],
              executed |-> <<sql_query>>,
              db_failed |-> r.raised,
              cells |-> r.cells]

\* error: None, or the exception that leaves the method; executed: the statements
\* handed to db.execute; db_failed: whether the try block raised
execute_sql_safely(db, sql_query, cells, outcome) ==
    IF ~db
    THEN [error |-> None, results |-> <<>>, executed |-> <<>>, db_failed |-> FALSE,
          cells |-> cells]
    ELSE IF UnsafeKeywordOf[sql_query] # 0
    THEN [error |-> UnsafeError(UnsafeKeywordOf[sql_query]), results |-> <<>>,
          executed |-> <<>>, db_failed |-> FALSE, cells |-> cells]
    ELSE LET r == db_execute(sql_query, cells, outcome)
         IN  [error |-> None,
              results |-> IF r.raised THEN <<>>
                          ELSE [i \in 1..Len(r.rows) |-> RowMapping(sql_query, r.rows[i])],
              executed |-> <<sql_query>>,
              db_failed |-> r.raised,
              cells |-> r.cells]

-----------------------------------------------------------------------------
(* SQL mode: SearchService._post_process_sql_results *)

\* the display format a column name selects
column_format(name) ==
    IF str_contains(str_lower(name), <<"p", "e", "r", "f", "o", "r", "m", "a", "n", "c", "e">>)
       \/ str_contains(name, <<"%">>)
    THEN "percent"
    ELSE IF str_contains(str_lower(name), <<"s", "a", "l", "e", "s">>)
            \/ str_contains(str_lower(name), <<"q", "u", "o", "t", "a">>)
    THEN "currency"
    ELSE "none"

ColumnFormat ==
    [name \in {ColRepName, ColQuota, ColPerformance} |-> column_format(name)]

format_row(result) ==
    LET name == result.column_name
    IN  IF ColumnFormat[name] = "percent"
        THEN IF result.numerical_value # None
             THEN [result EXCEPT !.formatted_value = Some(<<"percent", result.numerical_value[1]>>)]
             ELSE result
        ELSE IF ColumnFormat[name] = "currency"
        THEN IF result.numerical_value # None
             THEN [result EXCEPT !.formatted_value = Some(<<"currency", result.numerical_value[1]>>)]
             ELSE result
        ELSE result

post_process_sql_results(results) ==
    [i \in 1..Len(results) |-> format_row(results[i])]

-----------------------------------------------------------------------------
(* Semantic mode *)

\* EmbeddingService.create_query_embedding: the provider's vector, or the zero
\* vector when the provider call raises
create_query_embedding(provider_vector, provider_ok) ==
    IF provider_ok THEN provider_vector ELSE ZeroVector

Min(a, b) ==
    IF a <= b THEN a ELSE b

\* vector_db.query(query_embeddings=[q], n_results=n): every answer the store may
\* give, as sequences of (document id, distance): the n nearest entries (all of
\* them when there are fewer), nearest first, ties in any order
vector_db_query(index, q, n) ==
    LET ids == DOMAIN index
        k == Min(n, Cardinality(ids))
        d(doc) == Distance(index[doc], q)
    IN  {[i \in 1..k |-> [id |-> r[i], distance |-> d(r[i])]] :
            r \in {s \in [1..k -> ids] :
                     /\ \A i, j \in 1..k : i # j => s[i] # s[j]
                     /\ \A i, j \in 1..k : i < j => d(s[i]) <= d(s[j])
                     /\ \A doc \in ids :
                           (\A i \in 1..k : s[i] # doc) => \A i \in 1..k : d(s[i]) <= d(doc)}}

\* SearchService._enhance_metadata_with_sql_context
enhance_metadata_with_sql_context(db, metadata, cells) ==
    IF ~db THEN metadata
    ELSE [metadata EXCEPT !.numerical_context =
            Some({[column_name |-> c.column_name, value |-> c.numerical_value[1],
                   type |-> c.data_type] :
                  c \in {x \in cells : /\ x.file_id = metadata.file_id
                                       /\ x.row_index = metadata.row_index
                                       /\ x.numerical_value # None}})]

\* variant: the distance is used as the score
similarity_Raw(distance) ==
    distance

\* score = 1 - distance
similarity(distance) ==
    One - distance

SearchResult(doc, score, metadata) ==
    [content |-> doc, score |-> score, metadata |-> metadata,
     row_index |-> metadata.row_index, column_name |-> metadata.column_name]

\* variant: the loop stops once more than limit results are collected
RECURSIVE process_results_LateBreak(_, _, _, _, _, _, _)
process_results_LateBreak(neighbours, i, limit, threshold, db, cells, st) ==
    IF i > Len(neighbours) THEN st
    ELSE LET doc == neighbours[i].id
             score == similarity(neighbours[i].distance)
         IN  IF score < threshold
             THEN process_results_LateBreak(neighbours, i + 1, limit, threshold, db, cells, st)
             ELSE LET enhanced == enhance_metadata_with_sql_context(db, DocMetadata(doc), cells)
                      st2 == [search_results |->
                                 Append(st.search_results, SearchResult(doc, score, enhanced)),
                              enriched |-> Append(st.enriched, doc)]
                  IN  IF Len(st2.search_results) > limit THEN st2
                      ELSE process_results_LateBreak(neighbours, i + 1, limit, threshold, db,
                                                     cells, st2)

\* variant: each accepted result is inserted at the front of search_results
RECURSIVE process_results_Prepend(_, _, _, _, _, _, _)
process_results_Prepend(neighbours, i, limit, threshold, db, cells, st) ==
    IF i > Len(neighbours) THEN st
    ELSE LET doc == neighbours[i].id
             score == similarity(neighbours[i].distance)
         IN  IF score < threshold
             THEN process_results_Prepend(neighbours, i + 1, limit, threshold, db, cells, st)
             ELSE LET enhanced == enhance_metadata_with_sql_context(db, DocMetadata(doc), cells)
                      st2 == [search_results |->
                                 <<SearchResult(doc, score, enhanced)>> \o st.search_results,
                              enriched |-> Append(st.enriched, doc)]
                  IN  IF Len(st2.search_results) >= limit THEN st2
                      ELSE process_results_Prepend(neighbours, i + 1, limit, threshold, db,
                                                   cells, st2)

\* the loop over the neighbours, from neighbour i on; st holds search_results and
\* the neighbours enriched so far
RECURSIVE process_results(_, _, _, _, _, _, _)
process_results(neighbours, i, limit, threshold, db, cells, st) ==
    IF i > Len(neighbours) THEN st
    ELSE LET doc == neighbours[i].id
             score == similarity(neighbours[i].distance)
         IN  IF score < threshold
             THEN process_results(neighbours, i + 1, limit, threshold, db, cells, st)
             ELSE LET enhanced == enhance_metadata_with_sql_context(db, DocMetadata(doc), cells)
                      st2 == [search_results |->
                                 Append(st.search_results, SearchResult(doc, score, enhanced)),
                              enriched |-> Append(st.enriched, doc)]
                  IN  IF Len(st2.search_results) >= limit THEN st2
                      ELSE process_results(neighbours, i + 1, limit, threshold, db, cells, st2)

\* SearchService._generate_search_suggestions
RECURSIVE SelectIndices(_, _, _)
SelectIndices(seq, keep, i) ==
    IF i > Len(seq) THEN <<>>
    ELSE (IF i \in keep THEN <<seq[i]>> ELSE <<>>) \o SelectIndices(seq, keep, i + 1)

\* variant: a suggestion is dropped only when one of its words is a word of the query
generate_search_suggestions_WordMatch(query) ==
    LET words == str_split(str_lower(query))
        keep == {k \in 1..Len(base_suggestions) :
                    LET own == str_split(str_lower(base_suggestions[k]))
                    IN  ~ \E w \in 1..Len(words), o \in 1..Len(own) : own[o] = words[w]}
    IN  PySliceTo(SelectIndices(base_suggestions, keep, 1), 3)

\* SearchService._generate_search_suggestions
generate_search_suggestions(query) ==
    LET words == str_split(str_lower(query))
        keep == {k \in 1..Len(base_suggestions) :
                    ~ \E w \in 1..Len(words) :
                          str_contains(str_lower(base_suggestions[k]), words[w])}
    IN  PySliceTo(SelectIndices(base_suggestions, keep, 1), 3)

\* SearchService.get_suggestions
get_suggestions(partial_query, limit) ==
    IF partial_query # <<>>
    THEN LET keep == {k \in 1..Len(suggestion_pool) :
                        str_contains(str_lower(suggestion_pool[k]), str_lower(partial_query))}
         IN  PySliceTo(SelectIndices(suggestion_pool, keep, 1), limit)
    ELSE PySliceTo(suggestion_pool, limit)

-----------------------------------------------------------------------------
(* Tabular Extractor: the texts of its files *)

\* ' Quota '
HeaderQuotaPadded ==
    <<" ", "Q", "u", "o", "t", "a", " ">>

\* 'index'
HeaderIndex ==
    <<"i", "n", "d", "e", "x">>

\* 'Unnamed: '
UnnamedPrefix ==
    <<"U", "n", "n", "a", "m", "e", "d", ":", " ">>

\* 'unnamed'
KwUnnamedLower ==
    <<"u", "n", "n", "a", "m", "e", "d">>

\* settings.ALLOWED_FILE_EXTENSIONS
\* [".xlsx", ".xls", ".csv"]
ALLOWED_FILE_EXTENSIONS ==
    <<<<".", "x", "l", "s", "x">>,
      <<".", "x", "l", "s">>,
      <<".", "c", "s", "v">>>>

\* the symbols after '$' are written by name
currency_symbols ==
    <<"$", "euro", "pound", "yen", "rupee">>

DigitChars ==
    <<"0", "1", "2", "3", "4", "5", "6", "7", "8", "9">>

-----------------------------------------------------------------------------
(* Tabular Extractor: cell values and their conversions *)

\* A cell value as row[col_name] yields it: a float or an int (num holds the value
\* in tenths, as the scores do), a str, or NaN for a missing cell.
NanValue ==
    [kind |-> "nan", num |-> 0, text |-> <<>>]

FloatValue(tenths) ==
    [kind |-> "float", num |-> tenths, text |-> <<>>]

IntValue(n) ==
    [kind |-> "int", num |-> One * n, text |-> <<>>]

StrValue(s) ==
    [kind |-> "str", num |-> 0, text |-> s]

str_endswith(s, suffix) ==
    Len(suffix) <= Len(s) /\ SubSeq(s, Len(s) - Len(suffix) + 1, Len(s)) = suffix

str_startswith(s, prefix) ==
    Len(prefix) <= Len(s) /\ SubSeq(s, 1, Len(prefix)) = prefix

IsDigit(c) ==
    \E d \in 1..10 : DigitChars[d] = c

DigitValue(c) ==
    (CHOOSE d \in 1..10 : DigitChars[d] = c) - 1

\* str(n) of an int n >= 0
RECURSIVE int_str(_)
int_str(n) ==
    IF n < 10 THEN <<DigitChars[n + 1]>>
    ELSE int_str(n \div 10) \o <<DigitChars[(n % 10) + 1]>>

\* str(x) of a float x >= 0 with one fractional digit: '0.5', '1.0', '2.5'
float_str(tenths) ==
    int_str(tenths \div One) \o <<".">> \o <<DigitChars[(tenths % One) + 1]>>

\* str(value)
py_str(value) ==
    CASE value.kind = "float" -> float_str(value.num)
      [] value.kind = "int" -> int_str(value.num \div One)
      [] value.kind = "str" -> value.text
      [] OTHER -> <<"n", "a", "n">>

RECURSIVE digits_value(_)
digits_value(digits) ==
    IF digits = <<>> THEN 0
    ELSE 10 * digits_value(SubSeq(digits, 1, Len(digits) - 1)) + DigitValue(digits[Len(digits)])

\* float(s) of a str: surrounding whitespace is dropped, then digits with at most
\* one '.' are a number (in tenths; the texts of the model have at most one
\* fractional digit); anything else raises ValueError (None)
float_parse(s) ==
    LET t == str_strip(s)
        dots == {i \in 1..Len(t) : t[i] = "."}
        dot == IF dots = {} THEN Len(t) + 1 ELSE SetMin(dots)
        whole == SubSeq(t, 1, dot - 1)
        fraction == SubSeq(t, dot + 1, Len(t))
    IN  IF Cardinality(dots) > 1
           \/ (\E i \in 1..Len(t) : i \notin dots /\ ~IsDigit(t[i]))
           \/ (whole = <<>> /\ fraction = <<>>)
        THEN None
        ELSE Some(One * digits_value(whole)
                  + (IF fraction = <<>> THEN 0 ELSE DigitValue(fraction[1])))

\* float(value): None when it raises
py_float(value) ==
    IF value.kind = "str" THEN float_parse(value.text) ELSE Some(value.num)

pd_isna(value) ==
    value.kind = "nan"

\* ExcelProcessor._is_numerical
is_numerical(value) ==
    IF pd_isna(value) THEN FALSE ELSE py_float(value) # None

\* ExcelProcessor._classify_numerical_type
classify_numerical_type(value, str_value) ==
    IF str_contains(str_value, <<"%">>)
       \/ (value.kind = "float" /\ 0 <= value.num /\ value.num <= One)
    THEN "percentage"
    ELSE IF \E k \in 1..Len(currency_symbols) : str_contains(str_value, <<currency_symbols[k]>>)
    THEN "currency"
    ELSE IF value.kind = "float" /\ str_contains(str_value, <<".">>)
    THEN "decimal"
    ELSE "number"

ExcelDataPoint(row_index, column_name, text_value, numerical_value, data_type, formula) ==
    [row_index |-> row_index, column_name |-> column_name, text_value |-> text_value,
     numerical_value |-> numerical_value, data_type |-> data_type, formula |-> formula]

\* variant: a text cell also carries a numerical value
create_data_point_TextWithNumber(row_idx, column_name, value) ==
    LET str_value == str_strip(py_str(value))
    IN  IF is_numerical(value)
        THEN ExcelDataPoint(row_idx, column_name, None, py_float(value),
                            classify_numerical_type(value, str_value), None)
        ELSE IF str_startswith(str_value, <<"=">>)
        THEN ExcelDataPoint(row_idx, column_name, Some(str_value), None, "formula",
                            Some(str_value))
        ELSE ExcelDataPoint(row_idx, column_name, Some(str_value), Some(0), "text", None)

\* ExcelProcessor._create_data_point
create_data_point(row_idx, column_name, value) ==
    LET str_value == str_strip(py_str(value))
    IN  IF is_numerical(value)
        THEN ExcelDataPoint(row_idx, column_name, None, py_float(value),
                            classify_numerical_type(value, str_value), None)
        ELSE IF str_startswith(str_value, <<"=">>)
        THEN ExcelDataPoint(row_idx, column_name, Some(str_value), None, "formula",
                            Some(str_value))
        ELSE ExcelDataPoint(row_idx, column_name, Some(str_value), None, "text", None)

-----------------------------------------------------------------------------
(* Tabular Extractor: the files and the parser *)

\* the values the cells of a file hold: a missing cell, 0.5, 1.0, 2.5, the int 1 and
\* the texts 'Ann', '=A1+B1', '$1.5' and '12'
CellValues ==
    {NanValue, FloatValue(5), FloatValue(10), FloatValue(25), IntValue(1),
     StrValue(<<"A", "n", "n">>),
     StrValue(<<"=", "A", "1", "+", "B", "1">>),
     StrValue(<<"$", "1", ".", "5">>),
     StrValue(<<"1", "2">>)}

\* an int stored in a float64 column or row is a float
as_float(value) ==
    IF value.kind = "int" THEN FloatValue(value.num) ELSE value

\* every value row[col_name] can yield
ArrivingValues ==
    CellValues \cup {as_float(value) : value \in CellValues}

\* create_data_point of each value, evaluated once
DataPointOf ==
    [value \in ArrivingValues |-> create_data_point(0, <<>>, value)]

\* the header rows of the files: two columns each
HeaderRows ==
    {<<ColRepName, ColQuota>>, <<ColRepName, HeaderQuotaPadded>>, <<<<>>, ColRepName>>,
     <<HeaderIndex, ColQuota>>}

\* 'Sales.CSV' and 'notes.txt'
Filenames ==
    {<<"S", "a", "l", "e", "s", ".", "C", "S", "V">>,
     <<"n", "o", "t", "e", "s", ".", "t", "x", "t">>}

\* an uploaded file: its name and its bytes (the header row and the data rows of
\* the sheet the bytes encode, or bytes no parser reads)
File(filename, parsable, header_cells, rows) ==
    [type |-> "file", filename |-> filename, parsable |-> parsable,
     header_cells |-> header_cells, rows |-> rows]

SheetRows ==
    UNION {[1..n -> [1..2 -> CellValues]] : n \in 0..MaxRows}

Files ==
    {File(filename, TRUE, header_cells, rows) :
        filename \in Filenames, header_cells \in HeaderRows, rows \in SheetRows}
    \cup {File(filename, FALSE, <<>>, <<>>) : filename \in Filenames}

\* hashlib.md5(file_content).hexdigest(): a function of the bytes alone, taken to
\* tell different bytes apart
file_hash(file) ==
    <<file.parsable, file.header_cells, file.rows>>

\* df.columns as pd.read_csv / pd.read_excel name them: a header cell left empty
\* is named 'Unnamed: k' after its position k, counted from 0
column_labels(header_cells) ==
    [k \in 1..Len(header_cells) |->
        IF header_cells[k] = <<>> THEN UnnamedPrefix \o int_str(k - 1) ELSE header_cells[k]]

\* the dtype the parser gives column k
column_dtype(rows, k) ==
    IF \E r \in 1..Len(rows) : rows[r][k].kind = "str" THEN "object"
    ELSE IF \E r \in 1..Len(rows) : rows[r][k].kind \in {"float", "nan"} THEN "float64"
    ELSE "int64"

\* variant: a sheet without data rows is read as an empty DataFrame
read_file_to_dataframe_AllowsEmpty(file) ==
    [error |-> ~file.parsable,
     columns |-> column_labels(file.header_cells),
     dtypes |-> [k \in 1..Len(file.header_cells) |-> column_dtype(file.rows, k)],
     rows |-> file.rows]

\* ExcelProcessor._read_file_to_dataframe: the DataFrame, or ValueError (error)
\* for bytes the parser rejects and for a sheet without data rows (df.empty)
read_file_to_dataframe(file) ==
    LET dtypes == [k \in 1..Len(file.header_cells) |-> column_dtype(file.rows, k)]
    IN  [error |-> ~file.parsable \/ file.rows = <<>>,
         columns |-> column_labels(file.header_cells),
         dtypes |-> dtypes,
         rows |-> [r \in 1..Len(file.rows) |->
                     [k \in 1..Len(file.header_cells) |->
                         IF dtypes[k] = "float64" THEN as_float(file.rows[r][k])
                         ELSE file.rows[r][k]]]]

\* df.iterrows(): each row is a Series of one dtype, so a row of int64 and float64
\* columns yields floats only
iterrows(df) ==
    LET numeric == \A k \in 1..Len(df.dtypes) : df.dtypes[k] # "object"
    IN  [r \in 1..Len(df.rows) |->
            [k \in 1..Len(df.columns) |->
                IF numeric /\ (\E j \in 1..Len(df.dtypes) : df.dtypes[j] = "float64")
                THEN as_float(df.rows[r][k])
                ELSE df.rows[r][k]]]

-----------------------------------------------------------------------------
(* Tabular Extractor: ExcelProcessor *)

\* ExcelProcessor._is_supported_file
is_supported_file(filename) ==
    \E k \in 1..Len(ALLOWED_FILE_EXTENSIONS) :
        str_endswith(str_lower(filename), ALLOWED_FILE_EXTENSIONS[k])

\* ExcelProcessor._extract_headers
extract_headers(df) ==
    LET Kept(header) == str_lower(header) \notin {KwUnnamedLower, HeaderIndex}
    IN  SelectSeq([k \in 1..Len(df.columns) |-> str_strip(df.columns[k])], Kept)

\* the position in df.columns of the label col_name; 0 when col_name is not a label
column_of(df, col_name) ==
    LET at == {k \in 1..Len(df.columns) : df.columns[k] = col_name}
    IN  IF at = {} THEN 0 ELSE SetMin(at)

\* ExcelProcessor._separate_data_types, from cell i on: the cells are visited row
\* by row and, within a row, in the order of headers
RECURSIVE separate_data_types(_, _, _, _)
separate_data_types(df, headers, i, acc) ==
    IF i > Len(df.rows) * Len(headers) THEN acc
    ELSE LET r == ((i - 1) \div Len(headers)) + 1
             col_name == headers[((i - 1) % Len(headers)) + 1]
             k == column_of(df, col_name)
             value == iterrows(df)[r][k]
             data_point == [DataPointOf[value] EXCEPT !.row_index = r - 1,
                                                      !.column_name = col_name]
         IN  IF k = 0 \/ pd_isna(value)
             THEN separate_data_types(df, headers, i + 1, acc)
             ELSE IF data_point.data_type = "text"
             THEN separate_data_types(df, headers, i + 1,
                      [acc EXCEPT !.text_data = Append(@, data_point)])
             ELSE IF data_point.data_type \in {"number", "percentage", "currency"}
             THEN separate_data_types(df, headers, i + 1,
                      [acc EXCEPT !.numerical_data = Append(@, data_point)])
             ELSE separate_data_types(df, headers, i + 1, acc)

ValueError(message) ==
    [type |-> "ValueError", message |-> message]

ProcessedExcelData(filename, headers, text_data, numerical_data, row_count, hash) ==
    [type |-> "ProcessedExcelData", filename |-> filename, headers |-> headers,
     text_data |-> text_data, numerical_data |-> numerical_data, row_count |-> row_count,
     file_hash |-> hash]

\* ExcelProcessor.process_file
process_file(file) ==
    IF ~is_supported_file(file.filename) THEN ValueError("Unsupported file type")
    ELSE LET df == read_file_to_dataframe(file)
             headers == extract_headers(df)
             separated == separate_data_types(df, headers, 1,
                              [text_data |-> <<>>, numerical_data |-> <<>>])
         IN  IF df.error THEN ValueError("Error reading file")
             ELSE ProcessedExcelData(file.filename, headers, separated.text_data,
                                     separated.numerical_data, Len(df.rows), file_hash(file))

-----------------------------------------------------------------------------
(* Ingest: EmbeddingService *)

\* sep.join(parts)
RECURSIVE str_join(_, _)
str_join(sep, parts) ==
    IF parts = <<>> THEN <<>>
    ELSE IF Len(parts) = 1 THEN parts[1]
    ELSE parts[1] \o sep \o str_join(sep, Tail(parts))

\* batch_size of _create_and_store_embeddings
batch_size ==
    10

\* EmbeddingService._create_context_text
\* f"Column: {column_name} | Value: {text_value}", and " | Formula: {formula}"
\* after it when the data point holds a formula
create_context_text(data_point) ==
    LET header_context == <<"C", "o", "l", "u", "m", "n", ":", " ">> \o data_point.column_name
        value_context == <<"V", "a", "l", "u", "e", ":", " ">>
                            \o (IF data_point.text_value = None
                                THEN <<"N", "o", "n", "e">> ELSE data_point.text_value[1])
    IN  IF data_point.formula # None /\ data_point.formula[1] # <<>>
        THEN header_context \o <<" ", "|", " ">> \o value_context \o <<" ", "|", " ">>
                \o <<"F", "o", "r", "m", "u", "l", "a", ":", " ">> \o data_point.formula[1]
        ELSE header_context \o <<" ", "|", " ">> \o value_context

\* genai.embed_content(content=text, task_type="retrieval_document")['embedding']:
\* the provider's vector for a document text, never the zero vector
embed_content(text) ==
    IF str_contains(text, <<"A", "n", "n">>) THEN 1 ELSE 2

\* EmbeddingService._create_embedding: the provider's vector, or the zero vector
\* when the provider call raises; nothing else is returned
create_embedding(text, provider_ok) ==
    IF provider_ok THEN embed_content(text) ELSE ZeroVector

\* one call of _create_embedding as the provider saw it and as the caller got it
EmbeddingCall(text, provider_ok) ==
    [text |-> text, provider_failed |-> ~provider_ok,
     returned |-> create_embedding(text, provider_ok)]

\* variant: the embeddings of a batch are returned last first
create_batch_embeddings_Reversed(batch, first_call, failing_call) ==
    [j \in 1..Len(batch) |->
        EmbeddingCall(create_context_text(batch[Len(batch) + 1 - j]),
                      first_call + j - 1 # failing_call)]

\* EmbeddingService._create_batch_embeddings: one call per data point, in order;
\* first_call numbers the calls of the upload, failing_call is the one that raises
create_batch_embeddings(batch, first_call, failing_call) ==
    [j \in 1..Len(batch) |->
        EmbeddingCall(create_context_text(batch[j]), first_call + j - 1 # failing_call)]

\* f"file_{file_id}_headers"
header_doc_id(file_id) ==
    <<"f", "i", "l", "e", "_">> \o int_str(file_id) \o <<"_", "h", "e", "a", "d", "e", "r", "s">>

\* f"file_{file_id}_row_{data_point.row_index}_col_{data_point.column_name}"
data_doc_id(file_id, data_point) ==
    <<"f", "i", "l", "e", "_">> \o int_str(file_id) \o <<"_", "r", "o", "w", "_">>
        \o int_str(data_point.row_index) \o <<"_", "c", "o", "l", "_">> \o data_point.column_name

\* a row of spreadsheet_data
SpreadsheetData(file_id, data_point, text_value, embedding_id) ==
    [file_id |-> file_id, row_index |-> data_point.row_index,
     column_name |-> data_point.column_name, text_value |-> text_value,
     numerical_value |-> data_point.numerical_value, data_type |-> data_point.data_type,
     embedding_id |-> embedding_id]

\* db.commit() of added rows: each gets the next primary key, in the order added
\* (a value a later step reads more than once is bound as the one member of a
\* set, here and below, the way a Python local holds what was assigned to it)
RECURSIVE insert_rows(_, _)
insert_rows(table, rows) ==
    CHOOSE out \in {
        IF rows = <<>> THEN committed
        ELSE LET next_id == IF committed = {} THEN 1
                            ELSE (CHOOSE x \in committed :
                                     \A y \in committed : y.id <= x.id).id + 1
             IN  insert_rows(committed \cup {[k \in {"id"} \cup DOMAIN rows[1] |->
                                                 IF k = "id" THEN next_id ELSE rows[1][k]]},
                             Tail(rows))
        : committed \in {table}} : TRUE

\* EmbeddingService._store_embedding_in_chromadb, called for the add-th time in
\* the upload: vector_db.add raises (and the method re-raises) when add is failing_add
store_embedding_in_chromadb(st, embedding, text, doc_id, failing_add) ==
    CHOOSE out \in {
        IF before.adds + 1 = failing_add
        THEN [before EXCEPT !.adds = @ + 1, !.raised = TRUE]
        ELSE [before EXCEPT !.adds = @ + 1,
                            !.index = (doc_id :> embedding) @@ @,
                            !.indexed = Append(@, [id |-> doc_id, document |-> text,
                                                   embedding |-> embedding])]
        : before \in {st}} : TRUE

\* the loop `for data_point, embedding in zip(batch, batch_embeddings)`, from pair j
RECURSIVE store_batch(_, _, _, _, _, _)
store_batch(batch, batch_embeddings, j, file_id, failing_add, st) ==
    IF j > Min(Len(batch), Len(batch_embeddings)) THEN st
    ELSE LET data_point == batch[j]
             doc_id == data_doc_id(file_id, data_point)
         IN  CHOOSE out \in {
                 IF added.raised THEN added
                 ELSE store_batch(batch, batch_embeddings, j + 1, file_id, failing_add,
                          [added EXCEPT
                              !.pending = Append(@, SpreadsheetData(file_id, data_point,
                                                         data_point.text_value, Some(doc_id))),
                              !.embeddings_count = @ + 1])
                 : added \in {store_embedding_in_chromadb(st, batch_embeddings[j],
                                  create_context_text(data_point), doc_id, failing_add)}} : TRUE

\* the loop `for i in range(0, len(text_data), batch_size)`, from offset i
RECURSIVE store_batches(_, _, _, _, _, _)
store_batches(text_data, i, file_id, failing_call, failing_add, st) ==
    IF i >= Len(text_data) THEN st
    ELSE LET batch == SubSeq(text_data, i + 1, Min(i + batch_size, Len(text_data)))
         IN  CHOOSE out \in {
                 IF after.raised THEN after
                 ELSE store_batches(text_data, i + batch_size, file_id, failing_call,
                                    failing_add, after)
                 : after \in {
                     store_batch(batch, [j \in 1..Len(calls) |-> calls[j].returned], 1,
                                 file_id, failing_add, [st EXCEPT !.calls = @ \o calls])
                     : calls \in {create_batch_embeddings(batch, Len(st.calls) + 1,
                                                          failing_call)}}} : TRUE

\* variant: the Cell Records added before an add raised are committed
create_and_store_embeddings_CommitsPending(text_data, headers, file_id, cells, index, failing_call, failing_add) ==
    LET header_text == str_join(<<" ", "|", " ">>, headers)
        header_call == EmbeddingCall(<<"H", "e", "a", "d", "e", "r", "s", ":", " ">>
                                        \o header_text, 1 # failing_call)
        header == store_embedding_in_chromadb(
                      [index |-> index, indexed |-> <<>>, pending |-> <<>>,
                       calls |-> <<header_call>>, adds |-> 0, raised |-> FALSE,
                       embeddings_count |-> 0],
                      header_call.returned, header_text, header_doc_id(file_id), failing_add)
    IN  CHOOSE out \in {
            [raised |-> done.raised, index |-> done.index, indexed |-> done.indexed,
             calls |-> done.calls, embeddings_count |-> done.embeddings_count,
             cells |-> insert_rows(cells, done.pending)]
            : done \in {IF header.raised THEN header
                        ELSE store_batches(text_data, 0, file_id, failing_call, failing_add,
                                 [header EXCEPT !.embeddings_count = @ + 1])}} : TRUE

\* EmbeddingService._create_and_store_embeddings: the header entry, then the
\* batches, then db.commit() of the Cell Records added on the way; when an add
\* raises the exception leaves the method and nothing of pending is committed
create_and_store_embeddings(text_data, headers, file_id, cells, index, failing_call, failing_add) ==
    LET header_text == str_join(<<" ", "|", " ">>, headers)
        header_call == EmbeddingCall(<<"H", "e", "a", "d", "e", "r", "s", ":", " ">>
                                        \o header_text, 1 # failing_call)
        header == store_embedding_in_chromadb(
                      [index |-> index, indexed |-> <<>>, pending |-> <<>>,
                       calls |-> <<header_call>>, adds |-> 0, raised |-> FALSE,
                       embeddings_count |-> 0],
                      header_call.returned, header_text, header_doc_id(file_id), failing_add)
    IN  CHOOSE out \in {
            [raised |-> done.raised, index |-> done.index, indexed |-> done.indexed,
             calls |-> done.calls, embeddings_count |-> done.embeddings_count,
             cells |-> IF done.raised THEN cells ELSE insert_rows(cells, done.pending)]
            : done \in {IF header.raised THEN header
                        ELSE store_batches(text_data, 0, file_id, failing_call, failing_add,
                                 [header EXCEPT !.embeddings_count = @ + 1])}} : TRUE

\* EmbeddingService._store_numerical_metadata
store_numerical_metadata(numerical_data, file_id, cells) ==
    [count |-> Len(numerical_data),
     cells |-> insert_rows(cells, [j \in 1..Len(numerical_data) |->
                                      SpreadsheetData(file_id, numerical_data[j], None, None)])]

\* variant: only the filename is unique
store_file_metadata_NameOnly(files, data, original_filename) ==
    LET excel_file == [filename |-> data.filename, original_filename |-> original_filename,
                       headers |-> data.headers, row_count |-> data.row_count,
                       file_hash |-> data.file_hash]
        stored_files == insert_rows(files, <<excel_file>>)
    IN  IF \E f \in files : f.filename = data.filename
        THEN [raised |-> TRUE, files |-> files, id |-> 0]
        ELSE [raised |-> FALSE, files |-> stored_files,
              id |-> (CHOOSE f \in stored_files : f \notin files).id]

\* EmbeddingService._store_file_metadata: the File Record is added and committed;
\* the commit raises IntegrityError when filename or file_hash is already stored
\* (both columns are unique)
store_file_metadata(files, data, original_filename) ==
    LET excel_file == [filename |-> data.filename, original_filename |-> original_filename,
                       headers |-> data.headers, row_count |-> data.row_count,
                       file_hash |-> data.file_hash]
        stored_files == insert_rows(files, <<excel_file>>)
    IN  IF \E f \in files : f.filename = data.filename \/ f.file_hash = data.file_hash
        THEN [raised |-> TRUE, files |-> files, id |-> 0]
        ELSE [raised |-> FALSE, files |-> stored_files,
              id |-> (CHOOSE f \in stored_files : f \notin files).id]

\* EmbeddingService.process_and_store_data: result is the dict returned, error the
\* exception raised instead
process_and_store_data(data, files, cells, index, original_filename, failing_call, failing_add) ==
    LET untouched == [raised |-> FALSE, index |-> index, indexed |-> <<>>, calls |-> <<>>,
                      embeddings_count |-> 0, cells |-> cells]
    IN  CHOOSE out \in {
            IF excel_file.raised
            THEN [untouched EXCEPT !.raised = TRUE] @@
                 [files |-> files,
                  error |-> Some(<<"IntegrityError", "UNIQUE constraint failed">>),
                  result |-> None]
            ELSE CHOOSE returned \in {
                     IF embedded.raised
                     THEN embedded @@
                          [files |-> excel_file.files,
                           error |-> Some(<<"Exception", "vector_db.add">>), result |-> None]
                     ELSE LET metadata == store_numerical_metadata(data.numerical_data,
                                              excel_file.id, embedded.cells)
                          IN  [embedded EXCEPT !.cells = metadata.cells] @@
                              [files |-> excel_file.files, error |-> None,
                               result |-> Some([type |-> "dict",
                                           embeddings_count |-> embedded.embeddings_count,
                                           metadata_count |-> metadata.count])]
                     : embedded \in {IF data.text_data # <<>>
                                     THEN create_and_store_embeddings(data.text_data,
                                              data.headers, excel_file.id, cells, index,
                                              failing_call, failing_add)
                                     ELSE untouched}} : TRUE
            : excel_file \in {store_file_metadata(files, data, original_filename)}} : TRUE

NoUpload ==
    /\ upload = [type |-> "none"]
    /\ processed_data = [type |-> "none"]
    /\ stored = [type |-> "none"]
    /\ embedding_calls = <<>>
    /\ indexed = <<>>

\* a file is handed to ExcelProcessor().process_file
excel_processing ==
    /\ upload.type = "file"
    /\ processed_data.type = "none"
    /\ processed_data' = process_file(upload)
    /\ UNCHANGED <<upload, vector_db, spreadsheet_data, excel_files, search_history, response,
                   executed, vector_calls, retrieved, enriched, request, generated, db_failed,
                   sql_results, history_failed, provider_failed, stored, embedding_calls,
                   indexed>>

-----------------------------------------------------------------------------
(* Requests *)

SemanticQueries ==
    {QueryBestSales}

\* a query one of whose words occurs inside a longer word of a follow-up suggestion
FollowUpQueries ==
    {QueryUnderQuota}

SqlQueries ==
    {QueryQuota}

\* the provider's retrieval-query embedding of a query text
QueryEmbedding(query) ==
    IF query = QueryBestSales THEN 1 ELSE 2

SearchSuggestions ==
    [query \in SemanticQueries \cup FollowUpQueries |-> generate_search_suggestions(query)]

PartialQueries ==
    {<<>>, KwQuotaLower, KwSelect}

SuggestionLimits ==
    {-1, 0, 2}

Suggestions ==
    [partial_query \in PartialQueries |->
        [limit \in SuggestionLimits |-> get_suggestions(partial_query, limit)]]

Request(mode, db, query, limit, threshold) ==
    [mode |-> mode, db |-> db, query |-> query, limit |-> limit, threshold |-> threshold]

\* the HTTPException an endpoint raises for any exception of the service:
\* detail is the endpoint's prefix followed by str(e)
HTTPException(prefix, error) ==
    [type |-> "HTTPException", status_code |-> 500, detail |-> <<prefix, error>>]

\* variant: an empty result list is answered with an error
SearchResponse_NotFound(query, search_results, suggestions) ==
    IF search_results = <<>>
    THEN HTTPException("Error performing semantic search", <<"LookupError", "no results">>)
    ELSE [type |-> "SearchResponse", query |-> query, results |-> search_results,
          total_results |-> Len(search_results), search_type |-> "semantic",
          suggestions |-> suggestions]

SearchResponse(query, search_results, suggestions) ==
    [type |-> "SearchResponse", query |-> query, results |-> search_results,
     total_results |-> Len(search_results), search_type |-> "semantic",
     suggestions |-> suggestions]

SQLQueryResult(query, sql_query, processed_results, explanation) ==
    [type |-> "SQLQueryResult", query |-> query, generated_sql |-> sql_query,
     results |-> processed_results, row_count |-> Len(processed_results),
     explanation |-> explanation]

\* variant: every record is written with the kind of semantic mode
log_search_history_OneKind(db, written, history, query, query_type, results_count) ==
    IF ~db \/ ~written THEN history
    ELSE Append(history, [query |-> query, query_type |-> "semantic",
                          results_count |-> results_count])

\* SearchService._log_search_history, the table search_history: with a session
\* attached the record is added and committed; when that write raises (written is
\* FALSE) the exception is printed and swallowed and nothing is stored
log_search_history(db, written, history, query, query_type, results_count) ==
    IF ~db \/ ~written THEN history
    ELSE Append(history, [query |-> query, query_type |-> query_type,
                          results_count |-> results_count])

\* SearchService._log_search_history, the other tables: db.commit() commits
\* everything the session's open transaction holds, not the history record alone;
\* without a successful commit the session is closed and its transaction rolled back
session_commit(db, written, committed, pending) ==
    IF ~db \/ ~written THEN committed ELSE pending

\* variant: no over-fetch
n_results_NoOverfetch(limit) ==
    limit

\* n_results of the vector query
n_results(limit) ==
    limit * 2

\* what the history write may do: succeed, or raise (only with a session attached:
\* without one nothing is written)
HistoryOutcomes(db) ==
    IF db THEN BOOLEAN ELSE {TRUE}

HistoryHasRoom(db) ==
    db => Len(search_history) < MaxHistory

\* POST /semantic: SearchService(db).semantic_search(query, limit, threshold)
semantic_search(db, query, limit, threshold, provider_ok, history_ok) ==
    /\ HistoryHasRoom(db)
    /\ LET q == create_query_embedding(QueryEmbedding(query), provider_ok)
       IN  \E neighbours \in vector_db_query(vector_db, q, n_results(limit)) :
             LET st == process_results(neighbours, 1, limit, threshold, db, spreadsheet_data,
                                       [search_results |-> <<>>, enriched |-> <<>>])
             IN  /\ response' = SearchResponse(query, st.search_results,
                                                SearchSuggestions[query])
                 /\ search_history' = log_search_history(db, history_ok, search_history, query,
                                                         "semantic", Len(st.search_results))
                 /\ vector_calls' = <<n_results(limit)>>
                 /\ retrieved' = neighbours
                 /\ enriched' = st.enriched
    /\ request' = Request("semantic", db, query, limit, threshold)
    /\ history_failed' = (db /\ ~history_ok)
    /\ generated' = None
    /\ executed' = <<>>
    /\ db_failed' = FALSE
    /\ provider_failed' = FALSE
    /\ sql_results' = <<>>
    /\ UNCHANGED <<vector_db, spreadsheet_data, excel_files, upload, processed_data, stored,
                   embedding_calls, indexed>>

\* POST /sql-query: SearchService(db).natural_language_to_sql(query)
natural_language_to_sql(db, query, provider, outcome, history_ok) ==
    /\ HistoryHasRoom(db)
    /\ LET gen == GeneratedSql[provider]
           run == execute_sql_safely(db, gen.sql_query, spreadsheet_data, outcome)
           processed == post_process_sql_results(run.results)
       IN  /\ generated' = Some(gen)
           /\ executed' = run.executed
           /\ db_failed' = run.db_failed
           /\ provider_failed' = (provider = ProviderRaises)
           /\ sql_results' = run.results
           /\ IF run.error # None
              THEN \* the exception leaves the service; the session is closed uncommitted
                   /\ response' = HTTPException("Error generating SQL query", run.error[1])
                   /\ history_failed' = FALSE
                   /\ UNCHANGED <<spreadsheet_data, search_history>>
              ELSE /\ response' = SQLQueryResult(query, gen.sql_query, processed,
                                                 gen.explanation)
                   /\ search_history' = log_search_history(db, history_ok, search_history,
                                                           query, "sql", Len(processed))
                   /\ spreadsheet_data' = session_commit(db, history_ok, spreadsheet_data,
                                                         run.cells)
                   /\ history_failed' = (db /\ ~history_ok)
    /\ request' = Request("sql", db, query, 0, 0)
    /\ vector_calls' = <<>>
    /\ retrieved' = <<>>
    /\ enriched' = <<>>
    /\ UNCHANGED <<vector_db, excel_files, upload, processed_data, stored, embedding_calls,
                   indexed>>

\* the files uploaded: a sheet with one text and one numerical cell as 'Sales.CSV'
\* and, byte for byte the same, as 'copy.csv'; a sheet of text cells that fills more
\* than one batch as 'team.xlsx'; a sheet of numbers as 'n.xls'; a sheet without
\* data rows; bytes no parser reads, as 'bad.csv' and as 'notes.txt'
UploadFiles ==
    LET Ann == StrValue(<<"A", "n", "n">>)
        Dollars == StrValue(<<"$", "1", ".", "5">>)
        header_cells == <<ColRepName, ColQuota>>
        sales == <<<<Ann, IntValue(1)>>>>
        team == [r \in 1..(batch_size \div 2 + 1) |->
                    IF r % 2 = 1 THEN <<Ann, Dollars>> ELSE <<Dollars, Ann>>]
        numbers == <<<<IntValue(1), FloatValue(25)>>>>
    IN  {File(<<"S", "a", "l", "e", "s", ".", "C", "S", "V">>, TRUE, header_cells, sales),
         File(<<"c", "o", "p", "y", ".", "c", "s", "v">>, TRUE, header_cells, sales),
         File(<<"t", "e", "a", "m", ".", "x", "l", "s", "x">>, TRUE, header_cells, team),
         File(<<"n", ".", "x", "l", "s">>, TRUE, header_cells, numbers),
         File(<<"e", "m", "p", "t", "y", ".", "c", "s", "v">>, TRUE, header_cells, <<>>),
         File(<<"b", "a", "d", ".", "c", "s", "v">>, FALSE, <<>>, <<>>),
         File(<<"n", "o", "t", "e", "s", ".", "t", "x", "t">>, FALSE, <<>>, <<>>)}

\* process_file of each uploaded file, evaluated once
ProcessedOf ==
    [file \in UploadFiles |-> process_file(file)]

\* the dict upload_excel_file returns, its values evaluated in the order written;
\* the first exception among them is raised instead.  obj[key] is the value of a
\* dict; ProcessedExcelData is a pydantic model, which has no __getitem__, so
\* subscripting it raises TypeError
upload_response(filename, extracted_data, result) ==
    LET py_getitem(obj, key) ==
            IF obj.type = "dict" THEN [error |-> None, value |-> obj[key]]
            ELSE [error |-> Some(<<"TypeError", "object is not subscriptable", obj.type>>),
                  value |-> None]
        headers == py_getitem(extracted_data, "headers")
        row_count == py_getitem(extracted_data, "row_count")
        embeddings_count == py_getitem(result, "embeddings_count")
        metadata_count == py_getitem(result, "metadata_count")
        raised == SelectSeq(<<headers, row_count, embeddings_count, metadata_count>>,
                            LAMBDA x : x.error # None)
    IN  IF raised # <<>>
        THEN HTTPException("Error processing file", raised[1].error[1])
        ELSE [type |-> "dict", message |-> "File processed successfully",
              filename |-> filename, headers |-> headers.value,
              rows_processed |-> row_count.value,
              embeddings_created |-> embeddings_count.value,
              metadata_records |-> metadata_count.value]

\* POST /excel: upload_excel_file(file, db)
upload_excel_file(file, failing_call, failing_add) ==
    /\ Cardinality(excel_files) < MaxFiles
    /\ upload' = file
    /\ request' = Request("upload", TRUE, file.filename, 0, 0)
    /\ IF ~is_supported_file(file.filename)
       THEN \* raised before the try block and before file.read()
            /\ response' = [type |-> "HTTPException", status_code |-> 400,
                            detail |-> <<"Invalid file type">>]
            /\ processed_data' = [type |-> "none"]
            /\ stored' = [type |-> "none"]
            /\ embedding_calls' = <<>>
            /\ indexed' = <<>>
            /\ UNCHANGED <<excel_files, spreadsheet_data, vector_db>>
       ELSE LET extracted_data == ProcessedOf[file]
            IN  /\ processed_data' = extracted_data
                /\ IF extracted_data.type = "ValueError"
                   THEN /\ response' = HTTPException("Error processing file",
                                           <<"ValueError", extracted_data.message>>)
                        /\ stored' = [type |-> "none"]
                        /\ embedding_calls' = <<>>
                        /\ indexed' = <<>>
                        /\ UNCHANGED <<excel_files, spreadsheet_data, vector_db>>
                   ELSE \E run \in {process_and_store_data(extracted_data, excel_files,
                                        spreadsheet_data, vector_db, file.filename,
                                        failing_call, failing_add)} :
                        /\ excel_files' = run.files
                        /\ spreadsheet_data' = run.cells
                        /\ vector_db' = run.index
                        /\ embedding_calls' = run.calls
                        /\ indexed' = run.indexed
                        /\ stored' = IF run.error # None
                                     THEN [type |-> "error", error |-> run.error[1]]
                                     ELSE run.result[1]
                        /\ response' = IF run.error # None
                                       THEN HTTPException("Error processing file",
                                                          run.error[1])
                                       ELSE upload_response(file.filename, extracted_data,
                                                            run.result[1])
    /\ generated' = None
    /\ executed' = <<>>
    /\ db_failed' = FALSE
    /\ provider_failed' = FALSE
    /\ sql_results' = <<>>
    /\ history_failed' = FALSE
    /\ vector_calls' = <<>>
    /\ retrieved' = <<>>
    /\ enriched' = <<>>
    /\ UNCHANGED search_history

\* GET /suggestions: SearchService().get_suggestions(query, limit)
get_search_suggestions(partial_query, limit) ==
    /\ response' = [type |-> "suggestions", items |-> Suggestions[partial_query][limit]]
    /\ request' = Request("suggestions", FALSE, partial_query, limit, 0)
    /\ generated' = None
    /\ executed' = <<>>
    /\ db_failed' = FALSE
    /\ provider_failed' = FALSE
    /\ sql_results' = <<>>
    /\ history_failed' = FALSE
    /\ vector_calls' = <<>>
    /\ retrieved' = <<>>
    /\ enriched' = <<>>
    /\ UNCHANGED <<vector_db, spreadsheet_data, excel_files, search_history, upload,
                   processed_data, stored, embedding_calls, indexed>>

-----------------------------------------------------------------------------
(* Specifications *)

NoRequest ==
    /\ request = Request("none", FALSE, <<>>, 0, 0)
    /\ response = [type |-> "none"]
    /\ generated = None
    /\ executed = <<>>
    /\ db_failed = FALSE
    /\ provider_failed = FALSE
    /\ sql_results = <<>>
    /\ history_failed = FALSE
    /\ vector_calls = <<>>
    /\ retrieved = <<>>
    /\ enriched = <<>>
    /\ search_history = <<>>

\* the vector collections an ingest of up to MaxDocs text cells can leave
VectorStores ==
    UNION {[1..n -> Positions] : n \in 0..MaxDocs}

Ingested ==
    /\ spreadsheet_data = SampleCells
    /\ excel_files = {SampleFile}

Init ==
    /\ NoRequest
    /\ NoUpload
    /\ Ingested
    /\ vector_db = [doc \in 1..MaxDocs |-> doc % 3]

SemanticRequest ==
    \E db \in BOOLEAN, query \in SemanticQueries, limit \in Limits, threshold \in Thresholds,
       provider_ok \in BOOLEAN :
      \E history_ok \in HistoryOutcomes(db) :
        semantic_search(db, query, limit, threshold, provider_ok, history_ok)

FollowUpRequest ==
    \E db \in BOOLEAN, query \in FollowUpQueries, limit \in Limits, threshold \in Thresholds,
       provider_ok \in BOOLEAN :
      \E history_ok \in HistoryOutcomes(db) :
        semantic_search(db, query, limit, threshold, provider_ok, history_ok)

SqlRequest ==
    \E db \in BOOLEAN, query \in SqlQueries, provider \in ProviderOutcomes,
       outcome \in DbOutcomes(spreadsheet_data) :
      \E history_ok \in HistoryOutcomes(db) :
        natural_language_to_sql(db, query, provider, outcome, history_ok)

SuggestionRequest ==
    \E partial_query \in PartialQueries, limit \in SuggestionLimits :
        get_search_suggestions(partial_query, limit)

Next ==
    \/ SemanticRequest
    \/ FollowUpRequest
    \/ SqlRequest
    \/ SuggestionRequest

Spec ==
    Init /\ [][Next]_vars

\* semantic mode alone, over every vector collection within the bounds
InitSemantic ==
    /\ NoRequest
    /\ NoUpload
    /\ Ingested
    /\ vector_db \in VectorStores

SpecSemantic ==
    InitSemantic /\ [][SemanticRequest]_vars

\* the Tabular Extractor alone, over every file within the bounds
InitExtract ==
    /\ NoRequest
    /\ Ingested
    /\ vector_db = [doc \in 1..MaxDocs |-> doc % 3]
    /\ upload \in Files
    /\ processed_data = [type |-> "none"]
    /\ stored = [type |-> "none"]
    /\ embedding_calls = <<>>
    /\ indexed = <<>>

SpecExtract ==
    InitExtract /\ [][excel_processing]_vars

\* the upload endpoint alone, from empty stores
InitUpload ==
    /\ NoRequest
    /\ NoUpload
    /\ excel_files = {}
    /\ spreadsheet_data = {}
    /\ vector_db = <<>>

\* failing_call: the _create_embedding call of the upload at which the provider
\* raises; failing_add: the vector_db.add call of the upload that raises, the
\* header entry, the first cell or the first cell of the second batch; 0: none
SpecUpload ==
    InitUpload
    /\ [][\E file \in UploadFiles, failing_call \in {0, 1, 2},
             failing_add \in {0, 1, 2, batch_size + 2} :
               upload_excel_file(file, failing_call, failing_add)]_vars

-----------------------------------------------------------------------------
(* Properties of SQL mode *)

MentionsUnsafeKeyword(stmt) ==
    \E k \in 1..Len(unsafe_keywords) : str_contains(str_upper(stmt), unsafe_keywords[k])

SqlRequestDone ==
    request.mode = "sql" /\ generated # None

\* C1: a statement whose uppercased text contains DELETE, UPDATE, INSERT, DROP,
\* ALTER, CREATE or TRUNCATE is never handed to db.execute, whatever the provider
\* returned and in whatever letter case the keyword is written.
C1_UnsafeNeverExecuted ==
    \A i \in 1..Len(executed) : ~MentionsUnsafeKeyword(executed[i])

\* a request with a session whose statement holds a keyword in lower case only,
\* answered without any statement executed
C1_Witness ==
    /\ SqlRequestDone
    /\ request.db
    /\ MentionsUnsafeKeyword(generated[1].sql_query)
    /\ \A k \in 1..Len(unsafe_keywords) :
          ~str_contains(generated[1].sql_query, unsafe_keywords[k])
    /\ executed = <<>>
    /\ response.type = "HTTPException"

\* C2: whenever the generated statement fails the keyword gate, the caller
\* receives the safety-violation error, with or without a database session, and
\* never a normal response with an empty result set.
C2_SafetyViolationReported ==
    (SqlRequestDone /\ MentionsUnsafeKeyword(generated[1].sql_query))
        => /\ response.type = "HTTPException"
           /\ response.detail[2][2] = "Unsafe SQL operation detected"

\* C3: every statement handed to db.execute is a SELECT statement; an empty
\* statement or a non-SELECT statement without denylisted keyword is not executed.
C3_OnlySelectExecuted ==
    \A i \in 1..Len(executed) : LeadingKeyword(executed[i]) = KwSelect

\* C4: no semantic, SQL or suggestion request changes, adds or removes a File
\* Record or a Cell Record.
C4_QueriesLeaveRecordsUnchanged ==
    [][request'.mode \in {"semantic", "sql", "suggestions"}
          => (spreadsheet_data' = spreadsheet_data /\ excel_files' = excel_files)]_vars

\* the response to a request whose statement produced no row
EmptySqlAnswer ==
    [type |-> "SQLQueryResult", query |-> request.query,
     generated_sql |-> generated[1].sql_query, results |-> <<>>, row_count |-> 0,
     explanation |-> generated[1].explanation]

\* C10: when a statement that passed the gate fails at execution, the caller gets
\* a normal response with no rows and row_count 0, the same response (elapsed
\* time apart) as for a statement that ran and matched no row.
C10_ExecutionFailureLooksEmpty ==
    (SqlRequestDone /\ executed # <<>>)
        => /\ db_failed => response = EmptySqlAnswer
           /\ (response.type = "SQLQueryResult" /\ response.row_count = 0)
                 => response = EmptySqlAnswer

\* a SELECT that passed the gate and failed in the database
C10_Witness ==
    /\ SqlRequestDone
    /\ executed # <<>>
    /\ db_failed
    /\ LeadingKeyword(generated[1].sql_query) = KwSelect
    /\ response.type = "SQLQueryResult"
    /\ response.row_count = 0

-----------------------------------------------------------------------------
(* Properties of semantic mode *)

SemanticRequestDone ==
    request.mode = "semantic"

Reaches(neighbour, threshold) ==
    One - neighbour.distance >= threshold

\* the retrieved neighbours whose similarity reaches the request's threshold
Accepted ==
    LET Test(n) == Reaches(n, request.threshold)
    IN  SelectSeq(retrieved, Test)

\* C5: the number of returned results never exceeds the limit.
C5_ResultsWithinLimit ==
    response.type = "SearchResponse"
        => /\ Len(response.results) <= request.limit
           /\ response.total_results <= request.limit

\* more neighbours reach the threshold than the limit allows, and limit are returned
C5_Witness ==
    /\ response.type = "SearchResponse"
    /\ Len(Accepted) > request.limit
    /\ Len(response.results) = request.limit

\* C6: every returned result has a score, 1 minus its distance, of at least the
\* threshold.
C6_ResultsReachThreshold ==
    response.type = "SearchResponse"
        => \A i \in 1..Len(response.results) :
              /\ response.results[i].score >= request.threshold
              /\ \E j \in 1..Len(retrieved) :
                    /\ retrieved[j].id = response.results[i].content
                    /\ response.results[i].score = One - retrieved[j].distance

\* a result is returned while another retrieved neighbour is discarded
C6_Witness ==
    /\ response.type = "SearchResponse"
    /\ response.results # <<>>
    /\ \E j \in 1..Len(retrieved) : ~Reaches(retrieved[j], request.threshold)

\* C7 as stated: each result's score is strictly greater than the next one's.
C7_StrictlyDescending ==
    response.type = "SearchResponse"
        => \A i \in 1..(Len(response.results) - 1) :
              response.results[i].score > response.results[i + 1].score

\* C7, amended: the results are ordered by descending similarity, equal scores
\* allowed: each result's score is at least the next one's.
C7_Descending ==
    response.type = "SearchResponse"
        => \A i \in 1..(Len(response.results) - 1) :
              response.results[i].score >= response.results[i + 1].score

\* two results of different scores
C7_Witness ==
    /\ response.type = "SearchResponse"
    /\ Len(response.results) >= 2
    /\ response.results[1].score > response.results[2].score

\* C8: when no retrieved neighbour reaches the threshold, or the index is empty,
\* the caller gets a normal response with no results and total_results = 0.
C8_NothingClearsThreshold ==
    (SemanticRequestDone /\ Accepted = <<>>)
        => /\ response.type = "SearchResponse"
           /\ response.results = <<>>
           /\ response.total_results = 0

\* neighbours were retrieved and all of them were discarded
C8_Witness ==
    /\ SemanticRequestDone
    /\ retrieved # <<>>
    /\ Accepted = <<>>
    /\ response.type = "SearchResponse"
    /\ response.total_results = 0

\* C9: one vector query asks for exactly 2 * limit neighbours; the results are, in
\* order, the first limit of the retrieved neighbours that reach the threshold,
\* and only those are enriched.
C9_OverfetchThenPrefix ==
    SemanticRequestDone
        => LET want == SubSeq(Accepted, 1, Min(request.limit, Len(Accepted)))
           IN  /\ vector_calls = <<2 * request.limit>>
               /\ Len(retrieved) = Min(2 * request.limit, Cardinality(DOMAIN vector_db))
               /\ response.type = "SearchResponse"
               /\ Len(response.results) = Len(want)
               /\ \A i \in 1..Len(want) :
                     /\ response.results[i].content = want[i].id
                     /\ response.results[i].score = One - want[i].distance
               /\ enriched = [i \in 1..Len(want) |-> want[i].id]

\* the over-fetch returned more than limit neighbours and the loop stopped at limit
C9_Witness ==
    /\ SemanticRequestDone
    /\ request.db
    /\ Len(retrieved) = 2 * request.limit
    /\ Len(Accepted) > request.limit
    /\ Len(enriched) = request.limit

-----------------------------------------------------------------------------
(* Properties of SQL mode: provider failure, post-processing *)

\* C11: when the call to the text provider fails, the request still completes
\* with a normal response: the statement is the fixed default
\* 'SELECT * FROM spreadsheet_data LIMIT 10', which passes the keyword gate, and
\* the explanation is the message describing the failure.
C11_ProviderFailureUsesDefault ==
    (SqlRequestDone /\ provider_failed)
        => /\ generated = Some([sql_query |-> DefaultSql,
                                explanation |-> ProviderErrorExplanation])
           /\ UnsafeKeywordOf[DefaultSql] = 0
           /\ LeadingKeywordOf[DefaultSql] = KwSelect
           /\ response.type = "SQLQueryResult"
           /\ response.generated_sql = DefaultSql
           /\ response.explanation = ProviderErrorExplanation
           /\ (request.db => executed = <<DefaultSql>>)

\* the provider failed, the default statement ran and its rows were returned
C11_Witness ==
    /\ SqlRequestDone
    /\ provider_failed
    /\ request.db
    /\ generated = Some([sql_query |-> DefaultSql, explanation |-> ProviderErrorExplanation])
    /\ executed = <<DefaultSql>>
    /\ response.type = "SQLQueryResult"
    /\ response.row_count > 0

\* the columns of a result row other than formatted_value
RowColumns ==
    {"id", "file_id", "row_index", "column_name", "text_value", "numerical_value",
     "data_type", "embedding_id"}

\* C12: post-processing is a display annotation only: every column value a row
\* had before post-processing is the same afterwards, and the only change to a
\* row is that a formatted_value entry may be added.
C12_PostProcessingOnlyAnnotates ==
    (SqlRequestDone /\ response.type = "SQLQueryResult")
        => /\ Len(response.results) = Len(sql_results)
           /\ \A i \in 1..Len(sql_results) :
                 /\ \A col \in RowColumns : response.results[i][col] = sql_results[i][col]
                 /\ sql_results[i].formatted_value # None
                       => response.results[i].formatted_value = sql_results[i].formatted_value

-----------------------------------------------------------------------------
(* Properties of the history *)

ResultCount(resp) ==
    IF resp.type = "SearchResponse" THEN resp.total_results ELSE resp.row_count

\* the Search History Record of the request answered in the next state
HistoryRecord ==
    [query |-> request'.query, query_type |-> request'.mode,
     results_count |-> ResultCount(response')]

AnsweredWithSession ==
    request'.db /\ response'.type \in {"SearchResponse", "SQLQueryResult"}

\* C13 as stated: every request answered with a session attached appends exactly
\* one Search History Record, of the request's kind and with the response's count.
C13_ExactlyOneHistoryRecord ==
    [][AnsweredWithSession => search_history' = Append(search_history, HistoryRecord)]_vars

\* C13, amended: a request answered with a session attached appends exactly one
\* Search History Record, of the request's kind and with the response's count,
\* when the history write succeeds, and appends none when the write raises (the
\* exception is swallowed and the response is returned all the same).
C13_HistoryRecordUnlessWriteFails ==
    [][AnsweredWithSession
          => IF history_failed'
             THEN search_history' = search_history
             ELSE search_history' = Append(search_history, HistoryRecord)]_vars

\* a SQL request with rows whose record was written
C13_Witness ==
    /\ SqlRequestDone
    /\ request.db
    /\ ~history_failed
    /\ response.type = "SQLQueryResult"
    /\ response.row_count > 0
    /\ search_history # <<>>
    /\ search_history[Len(search_history)] =
          [query |-> request.query, query_type |-> "sql", results_count |-> response.row_count]

-----------------------------------------------------------------------------
(* Properties of the suggestions *)

\* the entries of the candidate pool that contain the partial query, letter case
\* ignored, in pool order
PoolMatches ==
    [partial_query \in PartialQueries |->
        LET Hit(entry) == str_contains(str_lower(entry), str_lower(partial_query))
        IN  SelectSeq(suggestion_pool, Hit)]

\* C14: suggest returns, in pool order, the first limit entries of the pool that
\* contain the partial query (letter case ignored); it never returns more than
\* limit entries, and every entry is a member of the pool.
C14_SuggestFirstLimitMatches ==
    request.mode = "suggestions"
        => LET matches == PoolMatches[request.query]
           IN  /\ response.items = SubSeq(matches, 1, Min(request.limit, Len(matches)))
               /\ Len(response.items) <= request.limit
               /\ \A i \in 1..Len(response.items) :
                     \E k \in 1..Len(suggestion_pool) : response.items[i] = suggestion_pool[k]

FollowUps ==
    SemanticQueries \cup FollowUpQueries

\* the follow-up suggestions that have a word in common with the query, letter
\* case ignored (words are separated by whitespace)
SharesWord ==
    [query \in FollowUps |->
        {k \in 1..Len(base_suggestions) :
            LET words == str_split(str_lower(query))
                own == str_split(str_lower(base_suggestions[k]))
            IN  \E w \in 1..Len(words), o \in 1..Len(own) : own[o] = words[w]}]

\* the follow-up suggestions inside which a word of the query occurs, letter case
\* ignored
HoldsWord ==
    [query \in FollowUps |->
        {k \in 1..Len(base_suggestions) :
            LET words == str_split(str_lower(query))
            IN  \E w \in 1..Len(words) :
                    str_contains(str_lower(base_suggestions[k]), words[w])}]

\* the suggestions of the response are the first three, in list order, of the
\* follow-up suggestions that are not in the set excluded
FirstThreeNotIn(excluded) ==
    /\ Len(response.suggestions) <= 3
    /\ \E at \in [1..Len(response.suggestions) -> 1..Len(base_suggestions)] :
          /\ \A i \in DOMAIN at : response.suggestions[i] = base_suggestions[at[i]]
          /\ \A i \in DOMAIN at : at[i] \notin excluded
          /\ \A i, j \in DOMAIN at : i < j => at[i] < at[j]
          /\ \A k \in 1..Len(base_suggestions) :
                (k \notin excluded
                 /\ Cardinality({e \in 1..(k - 1) : e \notin excluded}) < 3)
                    => \E i \in DOMAIN at : at[i] = k

\* C15 as stated: a response carries at most three follow-up suggestions; a
\* suggestion is returned only if it shares no word with the query, and a
\* suggestion that shares no word with the query is not excluded.
C15_NoSharedWord ==
    response.type = "SearchResponse" => FirstThreeNotIn(SharesWord[request.query])

\* C15, amended: a response carries at most three follow-up suggestions; a
\* suggestion is excluded exactly when a whitespace-separated word of the
\* lowercased query occurs anywhere inside the lowercased suggestion, also inside
\* a longer word, and the first three suggestions not excluded are returned.
C15_NoWordOccurs ==
    response.type = "SearchResponse" => FirstThreeNotIn(HoldsWord[request.query])

\* 'under' of the query occurs in 'underperforming?': the third suggestion is
\* left out and the fourth is returned
C15_Witness ==
    /\ response.type = "SearchResponse"
    /\ request.query = QueryUnderQuota
    /\ Len(response.suggestions) = 3
    /\ \A i \in 1..3 : response.suggestions[i] # base_suggestions[3]
    /\ response.suggestions[3] = base_suggestions[4]

-----------------------------------------------------------------------------
(* Properties of the Tabular Extractor *)

Extracted ==
    processed_data.type = "ProcessedExcelData"

\* the cells of the file other than the header row that hold a value
NonNullCells ==
    {rk \in (1..Len(upload.rows)) \X (1..Len(upload.header_cells)) :
        ~pd_isna(upload.rows[rk[1]][rk[2]])}

\* the cells the extractor classifies: the non-null cells of the columns its
\* header list resolves, with the value each arrives with
VisitedCells ==
    LET df == read_file_to_dataframe(upload)
    IN  {[row_index |-> r - 1, column_name |-> processed_data.headers[h],
          value |-> iterrows(df)[r][column_of(df, processed_data.headers[h])]] :
            r \in 1..Len(df.rows),
            h \in {x \in 1..Len(processed_data.headers) :
                      column_of(df, processed_data.headers[x]) # 0}}

ClassifiedCells ==
    {cell \in VisitedCells : ~pd_isna(cell.value)}

DataPoint(cell) ==
    create_data_point(cell.row_index, cell.column_name, cell.value)

InTextData(data_point) ==
    \E i \in 1..Len(processed_data.text_data) : processed_data.text_data[i] = data_point

InNumericalData(data_point) ==
    \E i \in 1..Len(processed_data.numerical_data) :
        processed_data.numerical_data[i] = data_point

\* C16: the classified cells are partitioned by type tag: a cell tagged number,
\* percentage, currency or decimal is in the numerical sequence, a cell tagged
\* text or formula is in the text sequence, and no cell is in both.
C16_PartitionByTypeTag ==
    Extracted
        => \A cell \in ClassifiedCells :
              LET data_point == DataPoint(cell)
              IN  /\ data_point.data_type \in {"number", "percentage", "currency", "decimal"}
                        => InNumericalData(data_point)
                  /\ data_point.data_type \in {"text", "formula"} => InTextData(data_point)
                  /\ ~(InTextData(data_point) /\ InNumericalData(data_point))

\* C17: for a file with N non-null cells outside the header row,
\* len(text_data) + len(numerical_data) = N, whatever the cells' types and the
\* column headers.
C17_EveryCellCountedOnce ==
    Extracted
        => Len(processed_data.text_data) + Len(processed_data.numerical_data)
              = Cardinality(NonNullCells)

\* a name the parser gives a column without header, or an index column
Placeholder(header) ==
    \/ str_startswith(str_lower(header), KwUnnamedLower)
    \/ str_lower(header) = HeaderIndex

\* C18: every header of the header list is trimmed of surrounding whitespace and
\* none is a placeholder such as the names the parser generates for a column
\* without a header.
C18_HeadersCleaned ==
    Extracted
        => \A h \in 1..Len(processed_data.headers) :
              /\ str_strip(processed_data.headers[h]) = processed_data.headers[h]
              /\ ~Placeholder(processed_data.headers[h])

\* C19: a numeric cell without '%' is classified as percentage exactly when its
\* value v satisfies 0 <= v <= 1, the boundaries included.
C19_PercentageIffInUnitInterval ==
    Extracted
        => \A cell \in ClassifiedCells :
              LET data_point == DataPoint(cell)
              IN  (data_point.numerical_value # None
                   /\ ~str_contains(py_str(cell.value), <<"%">>))
                    => (data_point.data_type = "percentage"
                          <=> (0 <= data_point.numerical_value[1]
                               /\ data_point.numerical_value[1] <= One))

\* C20: a cell whose value string contains a currency symbol such as '$' is
\* classified as currency and is in the numerical sequence.
C20_CurrencySymbolMeansCurrency ==
    Extracted
        => \A cell \in ClassifiedCells :
              str_contains(py_str(cell.value), <<"$">>)
                  => /\ DataPoint(cell).data_type = "currency"
                     /\ InNumericalData(DataPoint(cell))

-----------------------------------------------------------------------------
(* Properties of the keyword gate *)

\* the statement of the last SQL request names a denylisted keyword only inside a
\* longer identifier
KeywordInsideIdentifier ==
    /\ MentionsUnsafeKeyword(generated[1].sql_query)
    /\ UnsafeKeyword_WholeWord(generated[1].sql_query) = 0

\* C27: the gate looks for each denylisted keyword as a substring of the
\* uppercased statement, so a statement in which a keyword occurs inside an
\* identifier or a literal (a SELECT naming the column created_at) is rejected by
\* the gate and never executed, although it only reads.
C27_SubstringMatchRejectsReads ==
    (SqlRequestDone /\ request.db /\ MentionsUnsafeKeyword(generated[1].sql_query))
        => /\ executed = <<>>
           /\ response.type = "HTTPException"
           /\ response.detail[2] = UnsafeError(UnsafeKeyword(generated[1].sql_query))[1]

\* a SELECT whose only keyword of the denylist is the CREATE of created_at, rejected
C27_Witness ==
    /\ SqlRequestDone
    /\ request.db
    /\ LeadingKeyword(generated[1].sql_query) = KwSelect
    /\ KeywordInsideIdentifier
    /\ executed = <<>>
    /\ response.type = "HTTPException"

\* C28: a SQL request (with a session) whose statement the gate rejects appends
\* no Search History Record and leaves the tables of File Records and Cell
\* Records as they were; the caller gets the error.
C28_RejectionWritesNothing ==
    [][(/\ request'.mode = "sql"
        /\ request'.db
        /\ generated' # None
        /\ MentionsUnsafeKeyword(generated'[1].sql_query))
         => /\ search_history' = search_history
            /\ spreadsheet_data' = spreadsheet_data
            /\ excel_files' = excel_files
            /\ response'.type = "HTTPException"]_vars

\* a rejected request after which the history holds no record
C28_Witness ==
    /\ SqlRequestDone
    /\ request.db
    /\ MentionsUnsafeKeyword(generated[1].sql_query)
    /\ response.type = "HTTPException"
    /\ sql_results = <<>>
    /\ search_history = <<>>

-----------------------------------------------------------------------------
(* Properties of the upload endpoint *)

UploadDone ==
    request.mode = "upload"

\* process_and_store_data returned its counts in the last upload
StorageCompleted ==
    UploadDone /\ stored.type = "dict"

HasAllowedExtension(filename) ==
    \E k \in 1..Len(ALLOWED_FILE_EXTENSIONS) :
        str_endswith(str_lower(filename), ALLOWED_FILE_EXTENSIONS[k])

\* the input-validation reasons: unsupported extension, bytes no parser reads, a
\* sheet without data rows
FailsValidation(file) ==
    ~HasAllowedExtension(file.filename) \/ ~file.parsable \/ file.rows = <<>>

\* C21: an upload rejected for an input-validation reason (unsupported extension,
\* empty file, unparsable sheet) is answered with an error and stores nothing: no
\* File Record, no Cell Record and no vector entry is created; a file with an
\* unsupported extension is rejected before the parser is called.
C21_RejectedBeforeStorage ==
    [][(request'.mode = "upload" /\ FailsValidation(upload'))
         => /\ response'.type = "HTTPException"
            /\ excel_files' = excel_files
            /\ spreadsheet_data' = spreadsheet_data
            /\ vector_db' = vector_db
            /\ stored'.type = "none"
            /\ (~HasAllowedExtension(upload'.filename)
                  => processed_data'.type = "none" /\ response'.status_code = 400)]_vars

\* unreadable bytes under an unsupported name, rejected for the name while the
\* stores hold an earlier upload
C21_Witness ==
    /\ UploadDone
    /\ ~HasAllowedExtension(upload.filename)
    /\ ~upload.parsable
    /\ response.type = "HTTPException"
    /\ response.status_code = 400
    /\ processed_data.type = "none"
    /\ excel_files # {}
    /\ spreadsheet_data # {}

\* the bytes of a file
FileBytes(file) ==
    <<file.parsable, file.header_cells, file.rows>>

\* C22: no two File Records have the same content hash; the hash is a function of
\* the bytes alone, not of the filename; and an upload whose bytes are those of a
\* stored file is answered with an error and adds no File Record, no Cell Record
\* and no vector entry.
C22_ContentHashUnique ==
    [][request'.mode = "upload"
         => /\ \A f, g \in excel_files' : f.file_hash = g.file_hash => f = g
            /\ \A a, b \in UploadFiles :
                  (FileBytes(a) = FileBytes(b) /\ ~FailsValidation(a) /\ ~FailsValidation(b))
                      => ProcessedOf[a].file_hash = ProcessedOf[b].file_hash
            /\ (/\ ~FailsValidation(upload')
                /\ \E f \in excel_files :
                      \E a \in UploadFiles : /\ ~FailsValidation(a)
                                             /\ f.file_hash = ProcessedOf[a].file_hash
                                             /\ FileBytes(a) = FileBytes(upload'))
                 => /\ response'.type = "HTTPException"
                    /\ excel_files' = excel_files
                    /\ spreadsheet_data' = spreadsheet_data
                    /\ vector_db' = vector_db]_vars

\* the bytes of a stored file uploaded again under another name, and refused
C22_Witness ==
    /\ UploadDone
    /\ ~FailsValidation(upload)
    /\ \E f \in excel_files : /\ f.file_hash = processed_data.file_hash
                              /\ f.filename # upload.filename
    /\ \A f \in excel_files : f.filename # upload.filename
    /\ stored.type = "error"
    /\ response.type = "HTTPException"

\* C23: after an upload whose storage completed the two stores agree in both
\* directions: every embedding id of a Cell Record is the id of a vector entry, and
\* every vector entry the upload created is referenced by a Cell Record.
C23_StoresConsistent ==
    StorageCompleted
        => /\ \A cell \in spreadsheet_data :
                 cell.embedding_id # None => cell.embedding_id[1] \in DOMAIN vector_db
           /\ \A i \in 1..Len(indexed) :
                 \E cell \in spreadsheet_data : cell.embedding_id = Some(indexed[i].id)

\* what process_and_store_data returns for the last upload when no provider call
\* fails
ResultWithoutFailure ==
    process_and_store_data(processed_data, {}, {}, <<>>, upload.filename, 0, 0).result[1]

\* C24: when the embedding provider fails for a text the adapter yields the zero
\* vector and goes on with the batch, and the failure reaches the caller in what
\* is returned: the caller does not receive what it receives when no call failed.
C24_FailureSurfaced ==
    StorageCompleted
        => \A i \in 1..Len(embedding_calls) :
              embedding_calls[i].provider_failed
                  => /\ embedding_calls[i].returned = ZeroVector
                     /\ Len(embedding_calls) = 1 + Len(processed_data.text_data)
                     /\ stored # ResultWithoutFailure

\* a File Record for the bytes and the name of the last upload is stored
Ingested_Upload ==
    \E f \in excel_files : /\ f.filename = upload.filename
                           /\ f.file_hash = processed_data.file_hash

\* C25: an upload whose extraction and storage both succeed is answered with the
\* success response carrying the headers, the rows processed, the embeddings
\* created and the metadata records created; an error is answered only when the
\* file was not ingested.
C25_SuccessReported ==
    StorageCompleted
        => /\ response.type = "dict"
           /\ response.headers = processed_data.headers
           /\ response.rows_processed = processed_data.row_count
           /\ response.embeddings_created = stored.embeddings_count
           /\ response.metadata_records = stored.metadata_count
           /\ (response.type = "HTTPException" => ~Ingested_Upload)

\* exactly one of text value and numerical value is populated, the one that goes
\* with the type tag
OneValuePopulated(record) ==
    /\ (record.text_value # None) # (record.numerical_value # None)
    /\ record.data_type \in {"number", "percentage", "currency", "decimal"}
          => (record.numerical_value # None /\ record.text_value = None)
    /\ record.data_type \in {"text", "formula"}
          => (record.text_value # None /\ record.numerical_value = None)

CellsOf(cells, f) ==
    {cell \in cells : cell.file_id = f.id}

\* vector_db.add raised in the last upload
IndexingFailed ==
    stored.type = "error" /\ stored.error[1] = "Exception"

\* C29: when indexing into the vector collection fails partway through an upload,
\* the File Record committed at the start of the upload stays stored and the
\* entries indexed before the failure stay in the collection, while no Cell Record
\* of the upload is committed; an upload of bytes whose File Record is stored is
\* refused for the unique content hash, and the Cell Records of a stored File
\* Record never change, so the cells of that file are never ingested.
C29_PartialIndexingOrphansFile ==
    [][request'.mode = "upload"
         => /\ IndexingFailed'
                 => /\ \E f \in excel_files' :
                          /\ f.file_hash = processed_data'.file_hash
                          /\ f \notin excel_files
                          /\ excel_files' = excel_files \cup {f}
                          /\ CellsOf(spreadsheet_data', f) = {}
                    /\ spreadsheet_data' = spreadsheet_data
                    /\ DOMAIN vector_db'
                          = DOMAIN vector_db \cup {indexed'[i].id : i \in 1..Len(indexed')}
                    /\ \A i \in 1..Len(indexed') :
                          vector_db'[indexed'[i].id] = indexed'[i].embedding
            /\ (/\ processed_data'.type = "ProcessedExcelData"
                /\ \E f \in excel_files : f.file_hash = processed_data'.file_hash)
                 => /\ stored'.type = "error"
                    /\ stored'.error[1] = "IntegrityError"
                    /\ excel_files' = excel_files
                    /\ vector_db' = vector_db
            /\ \A f \in excel_files :
                  CellsOf(spreadsheet_data', f) = CellsOf(spreadsheet_data, f)]_vars

\* the bytes of a file whose indexing failed after the header entry, uploaded
\* again and refused: its File Record and its header entry are stored, none of
\* its cells is
C29_Witness ==
    /\ UploadDone
    /\ stored.type = "error"
    /\ stored.error[1] = "IntegrityError"
    /\ processed_data.text_data # <<>>
    /\ \E f \in excel_files :
          /\ f.file_hash = processed_data.file_hash
          /\ CellsOf(spreadsheet_data, f) = {}
          /\ header_doc_id(f.id) \in DOMAIN vector_db

\* the File Record the last upload stored
StoredFile ==
    CHOOSE f \in excel_files : f.file_hash = processed_data.file_hash

\* C30: for a text sequence of n >= 1 cells, taken in batches of 10 one after the
\* other, every text cell is embedded and indexed exactly once, in input order,
\* with the embedding computed from its own context text, after the header entry,
\* and embeddings_count is n + 1; for n = 0 nothing is embedded or indexed and
\* embeddings_count is 0; metadata_count is the length of the numerical sequence.
C30_EveryTextCellIndexedOnce ==
    StorageCompleted
        => LET text_data == processed_data.text_data
               n == Len(text_data)
           IN  /\ n >= 1
                     => /\ Len(indexed) = n + 1
                        /\ Len(embedding_calls) = n + 1
                        /\ indexed[1].id = header_doc_id(StoredFile.id)
                        /\ \A j \in 1..n :
                              LET context_text == create_context_text(text_data[j])
                              IN  /\ indexed[j + 1].id = data_doc_id(StoredFile.id, text_data[j])
                                  /\ indexed[j + 1].document = context_text
                                  /\ embedding_calls[j + 1].text = context_text
                                  /\ indexed[j + 1].embedding = embedding_calls[j + 1].returned
                                  /\ indexed[j + 1].embedding
                                        = IF embedding_calls[j + 1].provider_failed
                                          THEN ZeroVector ELSE embed_content(context_text)
                        /\ \A i, j \in 1..(n + 1) : i # j => indexed[i].id # indexed[j].id
                        /\ stored.embeddings_count = n + 1
               /\ n = 0 => /\ indexed = <<>>
                           /\ embedding_calls = <<>>
                           /\ stored.embeddings_count = 0
               /\ stored.metadata_count = Len(processed_data.numerical_data)

\* an upload whose text cells fill more than one batch
C30_Witness ==
    /\ StorageCompleted
    /\ Len(processed_data.text_data) > batch_size
    /\ Len(indexed) = Len(processed_data.text_data) + 1
    /\ stored.embeddings_count = Len(processed_data.text_data) + 1

====
